---- MODULE Spec2Model ----
(***************************************************************************)
(* Battery unit controller of smart-lbss (BatteryController/               *)
(* battery_controller.c): lifecycle state machine, command and parameter   *)
(* admission, registration loop, periodic tick (physical model + safety    *)
(* check) and local reset.                                                 *)
(*                                                                         *)
(* Fleet coordinator (uGridController/ugrid_controller.c): registry of     *)
(* units, registration, telemetry mirror, manual objectives, optimizer     *)
(* (run_mpc) and the sequential dispatch of commands.                      *)
(*                                                                         *)
(* C floats are modelled as fixed-point integers with hardware-float       *)
(* specials (NaN, +/-Inf):                                                 *)
(*   power            0.1 W      (dW)                                      *)
(*   SoC, SoH         1e-4                                                 *)
(*   temperature      0.01 degC                                            *)
(*   current          0.01 A     (cA)                                      *)
(*   voltage          1 mV                                                 *)
(*   capacity, Ah     0.01 Ah                                              *)
(*   coordinator kW   1e-4 kW (= 0.1 W); cost parameters 0.01              *)
(***************************************************************************)
EXTENDS Integers, Sequences, FiniteSets, TLC

(* ------------------------------------------------------------------ *)
(* Bounds of the exploration                                          *)
(* ------------------------------------------------------------------ *)
MaxTicks == 1
MaxMsgs == 2
MaxRegFailures == 1
MaxPosts == 3
MaxReqs == 2
MaxCycles == 1
MaxFleet == 2
MaxRegistryPosts == 6
MaxOptPosts == 1
MaxOptCycles == 3
MaxFleetPosts == 1
MaxFleetNotes == 3
MaxInFlight == 2

(* ------------------------------------------------------------------ *)
(* Float arithmetic                                                   *)
(* ------------------------------------------------------------------ *)
NaN == -2000000000
Inf == 1000000000

IsFinite(a) == a # NaN /\ a # Inf /\ a # -Inf

\* C conversion of a real quotient: round toward zero
TDiv(a, b) == IF a >= 0 THEN a \div b ELSE -((-a) \div b)

Sat(x) == IF x >= Inf THEN Inf ELSE IF x <= -Inf THEN -Inf ELSE x

FAdd(a, b) ==
    IF a = NaN \/ b = NaN THEN NaN
    ELSE IF (a = Inf /\ b = -Inf) \/ (a = -Inf /\ b = Inf) THEN NaN
    ELSE IF a = Inf \/ b = Inf THEN Inf
    ELSE IF a = -Inf \/ b = -Inf THEN -Inf
    ELSE Sat(a + b)

FNeg(a) == IF a = NaN THEN NaN ELSE -a

FSub(a, b) == FAdd(a, FNeg(b))

FAbs(a) == IF a = NaN THEN NaN ELSE IF a < 0 THEN -a ELSE a

\* a * (n / d) for constants n, d > 0
FScale(a, n, d) ==
    IF a = NaN THEN NaN
    ELSE IF ~IsFinite(a) THEN (IF n = 0 THEN NaN ELSE IF n < 0 THEN -a ELSE a)
    ELSE Sat(TDiv(a * n, d))

\* (a * k) / b for a float divisor b and a unit-conversion constant k > 0
FQuot(a, k, b) ==
    IF a = NaN \/ b = NaN THEN NaN
    ELSE IF ~IsFinite(a) /\ ~IsFinite(b) THEN NaN
    ELSE IF ~IsFinite(a) THEN (IF b >= 0 THEN a ELSE -a)
    ELSE IF ~IsFinite(b) THEN 0
    ELSE IF b = 0 THEN (IF a = 0 THEN NaN ELSE IF a > 0 THEN Inf ELSE -Inf)
    ELSE IF b > 0 THEN Sat(TDiv(a * k, b))
    ELSE Sat(-TDiv(a * k, -b))

\* IEEE comparisons: every comparison with NaN is false
FLt(a, b) == a # NaN /\ b # NaN /\ a < b
FGt(a, b) == a # NaN /\ b # NaN /\ a > b
FLe(a, b) == a # NaN /\ b # NaN /\ a <= b
FGe(a, b) == a # NaN /\ b # NaN /\ a >= b

(* ------------------------------------------------------------------ *)
(* Program constants                                                  *)
(* ------------------------------------------------------------------ *)
STATE_INIT == "STATE_INIT"
STATE_RUNNING == "STATE_RUNNING"
STATE_ISOLATED == "STATE_ISOLATED"
battery_state_t == {STATE_INIT, STATE_RUNNING, STATE_ISOLATED}

BAT_MAX_POWER_W == 100000
SCALED_CAPACITY_AH == 20000
ML_WINDOW == 20
MAX_RETRY == 10
MAX_BATTERIES == 5
BAT_MAX_POWER_KW == 100000
PGD_ITERATIONS == 100

CREATED_2_01 == "CREATED_2_01"
CHANGED_2_04 == "CHANGED_2_04"
BAD_REQUEST_4_00 == "BAD_REQUEST_4_00"
FORBIDDEN_4_03 == "FORBIDDEN_4_03"
SERVICE_UNAVAILABLE_5_03 == "SERVICE_UNAVAILABLE_5_03"
NO_RESPONSE == "NO_RESPONSE"

(* ------------------------------------------------------------------ *)
(* State of one battery unit                                          *)
(* ------------------------------------------------------------------ *)
VARIABLES
    current_state,        \* lifecycle: battery_state_t
    power_setpoint,       \* dW
    bat_voltage,          \* mV
    bat_current,          \* cA
    bat_temp,             \* 0.01 degC
    bat_soc,              \* 1e-4
    bat_soh,              \* 1e-4
    bat_capacity_ah,      \* 0.01 Ah
    charge_cycles,        \* uint32
    total_ah_throughput,  \* 0.01 Ah
    peak_temp_reached,    \* 0.01 degC
    was_charging,         \* bool
    ml_buffer,            \* ML_WINDOW rows of 4 features, 1e-4
    soh_critical,         \* 1e-4
    soh_warning,          \* 1e-4
    temp_critical,        \* 0.01 degC
    temp_warning,         \* 0.01 degC
    cycles_warning,       \* uint32
    pc,                   \* position of PROCESS_THREAD(battery_controller)
    retry_count,          \* registration attempts made
    last_op,              \* the handler or step that ran last
    prev_state,           \* the lifecycle state it found
    resp,                 \* the CoAP status code it answered
    notified,             \* whether it called coap_notify_observers
    tick_mid,             \* unit state between update_sensors_and_buffer and check_safety
    n_ticks,              \* exploration counters
    n_msgs

\* state of the coordinator
VARIABLES
    batteries,            \* the registry: MAX_BATTERIES slots, indexed from 0
    battery_count,        \* slots in use
    alpha,                \* cost parameters, 0.01
    beta,
    gama,
    price,
    ug_pc,                \* position of PROCESS_THREAD(ugrid_controller)
    disp_i,               \* its static loop index i
    exchanges,            \* PUT dev/power exchanges sent and not yet completed
    ev_msg,               \* a PROCESS_EVENT_MSG is queued for the process
    et_observe_setup,     \* the observe-setup timer is running
    ug_op,                \* the coordinator's CoAP handler that ran last
    ug_resp,              \* the CoAP status code it answered
    sent,                 \* commands issued so far in the present control cycle
    n_posts,              \* exploration counters
    n_reqs,
    n_cycles

\* dev/state notifications sent by the unit and not yet delivered to the coordinator
VARIABLES
    net

elec == <<bat_voltage, bat_current, bat_temp, bat_soc, bat_soh, bat_capacity_ah>>
aging == <<charge_cycles, total_ah_throughput, peak_temp_reached, was_charging>>
thresholds == <<soh_critical, soh_warning, temp_critical, temp_warning, cycles_warning>>
proc == <<pc, retry_count>>
obs == <<last_op, prev_state, resp, notified, tick_mid>>
counters == <<n_ticks, n_msgs>>
unit == <<current_state, power_setpoint, elec, aging, ml_buffer, thresholds>>
uvars == <<unit, proc, obs, counters>>

cost == <<alpha, beta, gama, price>>
registry == <<batteries, battery_count>>
ug_proc == <<ug_pc, disp_i, exchanges, ev_msg, et_observe_setup>>
ug_obs == <<ug_op, ug_resp, sent>>
ug_counters == <<n_posts, n_reqs, n_cycles>>
cvars == <<registry, cost, ug_proc, ug_obs, ug_counters>>

vars == <<uvars, cvars, net>>

\* p0, soc0: setpoint and SoC the tick found; the rest: the unit as
\* update_sensors_and_buffer left it
NoMid ==
    [run |-> FALSE, p0 |-> 0, soc0 |-> 0, soh0 |-> 0, p |-> 0, i |-> 0, t |-> 0, soc |-> 0,
     soh |-> 0, r |-> 0]

\* an unused registry slot: zero-initialised static storage
NoAddr == "::"

ZeroEntry ==
    [ ip |-> NoAddr, active |-> FALSE, obs_requested |-> FALSE,
      current_soc |-> 0, current_voltage |-> 0, current_temp |-> 0,
      current_soh |-> 0, current_current |-> 0, optimal_u |-> 0,
      actual_power |-> 0, state |-> <<>>, has_objective |-> FALSE,
      objective_power |-> 0 ]

\* the coordinator when its process starts
CoordInit ==
    /\ batteries = [k \in 0..(MAX_BATTERIES - 1) |-> ZeroEntry]
    /\ battery_count = 0
    /\ alpha = 100
    /\ beta = 100
    /\ gama = 2000
    /\ price = 25
    /\ ug_pc = "init_wait"
    /\ disp_i = 0
    /\ exchanges = {}
    /\ ev_msg = FALSE
    /\ et_observe_setup = FALSE
    /\ ug_op = "none"
    /\ ug_resp = "none"
    /\ sent = <<>>
    /\ n_posts = 0
    /\ n_reqs = 0
    /\ n_cycles = 0

Init ==
    /\ CoordInit
    /\ current_state = STATE_INIT
    /\ power_setpoint = 0
    /\ bat_voltage = 3700
    /\ bat_current = 0
    /\ bat_temp = 2500
    /\ bat_soc = 8000
    /\ bat_soh = 10000
    /\ bat_capacity_ah = SCALED_CAPACITY_AH
    /\ charge_cycles = 0
    /\ total_ah_throughput = 0
    /\ peak_temp_reached = 2500
    /\ was_charging = FALSE
    /\ ml_buffer = [i \in 1..ML_WINDOW |-> <<5000, 5000, 5000, 5000>>]
    /\ soh_critical = 7500
    /\ soh_warning = 8500
    /\ temp_critical = 6000
    /\ temp_warning = 5000
    /\ cycles_warning = 100
    /\ pc = "init_wait"
    /\ retry_count = 0
    /\ last_op = "none"
    /\ prev_state = STATE_INIT
    /\ resp = "none"
    /\ notified = FALSE
    /\ tick_mid = NoMid
    /\ n_ticks = 0
    /\ n_msgs = 0
    /\ net = {}

(* ------------------------------------------------------------------ *)
(* Request payloads: text tokens and what the C library reads in them *)
(* ------------------------------------------------------------------ *)
\* a decimal number (v: its value in the unit of the field it is stored in),
\* the text "nan", text that starts no number, or a quoted JSON string
Num(v) == [k |-> "num", v |-> v, s |-> <<>>]
NanText == [k |-> "nan", v |-> 0, s |-> <<>>]
Junk == [k |-> "junk", v |-> 0, s |-> <<>>]
Str(s) == [k |-> "str", v |-> 0, s |-> s]

\* atof: the number read, NaN for "nan", 0 when no conversion can be performed
atof(tok) ==
    IF tok.k = "num" THEN tok.v ELSE IF tok.k = "nan" THEN NaN ELSE 0

\* strtoul(.., 10) cast to uint32_t: 0 when no conversion can be performed;
\* a negative number wraps to 2^32 + v, beyond every count of the model
strtoul(tok) ==
    IF tok.k = "num" THEN (IF tok.v >= 0 THEN tok.v ELSE Inf) ELSE 0

PowerReq(len, tok) == [len |-> len, tok |-> tok, fields |-> <<>>]

PowerPayloads ==
    { PowerReq(4, Num(50000)),      \* "5000"
      PowerReq(5, Num(150000)),     \* "15000"
      PowerReq(6, Num(-150000)),    \* "-15000"
      PowerReq(4, Num(-3)),         \* "-0.3"
      PowerReq(3, Num(3)),          \* "0.3"
      PowerReq(3, Junk),            \* "abc"
      PowerReq(3, NanText),         \* "nan"
      PowerReq(0, Junk),            \* empty payload
      PowerReq(40, Num(50000)) }    \* "5000" padded to 40 bytes

(* ------------------------------------------------------------------ *)
(* PUT dev/power                                                      *)
(* ------------------------------------------------------------------ *)
\* mutant: only the Isolated state is refused
PowerAdmitted_m(st) == st # STATE_ISOLATED

PowerAdmitted(st) == st = STATE_RUNNING

PowerLenOk(len) == len > 0 /\ len < 32

ClampPower(req_p) ==
    IF FGt(req_p, BAT_MAX_POWER_W) THEN BAT_MAX_POWER_W
    ELSE IF FLt(req_p, -BAT_MAX_POWER_W) THEN -BAT_MAX_POWER_W
    ELSE req_p

(* ------------------------------------------------------------------ *)
(* GET dev/state and its notifications                                *)
(* ------------------------------------------------------------------ *)
\* a JSON body: its byte length and its "key":value fields in order
Field(key, tok) == [key |-> key, tok |-> tok]

INI_TEXT == <<"I", "N", "I">>
RUN_TEXT == <<"R", "U", "N">>
ISO_TEXT == <<"I", "S", "O">>

\* a dev/state body: byte length and "key":value fields
Telemetry(len, fields) == [len |-> len, tok |-> Junk, fields |-> fields]

\* char s[5]: "INI", "RUN" or "ISO"
StateName(st) ==
    IF st = STATE_RUNNING THEN RUN_TEXT
    ELSE IF st = STATE_ISOLATED THEN ISO_TEXT
    ELSE INI_TEXT

\* export_I, cA
ExportI(st, i) == IF st = STATE_ISOLATED THEN 0 ELSE i

\* mutant: the measured voltage is exported in every state
ExportV_m(st, v, soc) == v

\* export_V, mV: V_MIN + (V_MAX - V_MIN) * bat_soc while Isolated
ExportV(st, v, soc) ==
    IF st = STATE_ISOLATED THEN FAdd(3000, FScale(soc, 12, 100)) ELSE v

RECURSIVE Digits(_)
Digits(n) == IF n < 10 THEN 1 ELSE 1 + Digits(n \div 10)

\* x rounded to the nearest multiple of q
Round(x, q) ==
    IF x >= 0 THEN ((x + q \div 2) \div q) * q
    ELSE -((((-x) + q \div 2) \div q) * q)

\* "%.2f" and "%.1f": the number the text carries, q model units per last digit
FormatFixed(x, q) ==
    IF x = NaN THEN NanText
    ELSE IF ~IsFinite(x) THEN Num(x)
    ELSE Num(Round(x, q))

\* the length of that text: one model units per 1.0, decimals after the point
FixedLen(x, one, decimals) ==
    IF ~IsFinite(x) THEN (IF x = -Inf THEN 4 ELSE 3)
    ELSE (IF x < 0 THEN 1 ELSE 0) + Digits(FAbs(x) \div one) + 1 + decimals

\* the body res_state_get_handler writes for a unit in the given state
res_state_get_handler(st, v, i, t, soc, soh) ==
    Telemetry(37 + FixedLen(ExportV(st, v, soc), 1000, 2) + FixedLen(ExportI(st, i), 100, 2)
                 + FixedLen(t, 100, 1) + FixedLen(soc, 10000, 2) + FixedLen(soh, 10000, 2),
              <<Field("V", FormatFixed(ExportV(st, v, soc), 10)),
                Field("I", FormatFixed(ExportI(st, i), 1)),
                Field("T", FormatFixed(t, 10)),
                Field("S", FormatFixed(soc, 100)),
                Field("H", FormatFixed(soh, 100)),
                Field("St", Str(StateName(st)))>>)

\* the unit's address
UnitAddr == "fd00::202"

\* the coordinator has requested an observe relationship on the unit's dev/state
Subscribed ==
    \E k \in 0..(battery_count - 1) :
       batteries[k].ip = UnitAddr /\ batteries[k].obs_requested

\* a notification: the body and the state it was written in
Note(st, v, i, t, soc, soh) ==
    [ body |-> res_state_get_handler(st, v, i, t, soc, soh),
      st |-> st, v |-> ExportV(st, v, soc), i |-> ExportI(st, i),
      t |-> t, soc |-> soc, soh |-> soh ]

\* coap_notify_observers(&res_dev_state): one notification to the coordinator, if
\* it observes the resource, written from the state the step leaves
Pushed(notify) ==
    net' = IF notify /\ Subscribed
           THEN net \cup {Note(current_state', bat_voltage', bat_current', bat_temp',
                               bat_soc', bat_soh')}
           ELSE net

\* what the step that ran last answered and did
Observed(op, code, notify, mid) ==
    /\ last_op' = op
    /\ prev_state' = current_state
    /\ resp' = code
    /\ notified' = notify
    /\ tick_mid' = mid
    /\ Pushed(notify)

res_power_put_handler(req) ==
    /\ n_msgs < MaxMsgs
    /\ n_msgs' = n_msgs + 1
    /\ IF ~PowerAdmitted(current_state)
       THEN /\ Observed("res_power_put_handler", FORBIDDEN_4_03, FALSE, NoMid)
            /\ UNCHANGED power_setpoint
       ELSE IF PowerLenOk(req.len)
       THEN /\ power_setpoint' = ClampPower(atof(req.tok))
            /\ Observed("res_power_put_handler", CHANGED_2_04, FALSE, NoMid)
       ELSE /\ Observed("res_power_put_handler", BAD_REQUEST_4_00, FALSE, NoMid)
            /\ UNCHANGED power_setpoint
    /\ UNCHANGED <<current_state, elec, aging, ml_buffer, thresholds, proc, n_ticks, cvars>>

(* ------------------------------------------------------------------ *)
(* PUT dev/params                                                     *)
(* ------------------------------------------------------------------ *)
ParamsReq(len, fields) == [len |-> len, tok |-> Junk, fields |-> fields]

ParamBodies ==
    { ParamsReq(21, <<Field("soh_critical", Num(9900))>>),
      ParamsReq(39, <<Field("temp_warning", Num(4000)),
                      Field("cycles_warning", Num(5)),
                      Field("temp_warning", Num(4500))>>),
      ParamsReq(15, <<Field("state", Str(ISO_TEXT))>>),
      ParamsReq(37, <<Field("foo", Num(1)),
                      Field("state", Str(<<"R", "U", "N">>)),
                      Field("soh_warning", Junk)>>),
      ParamsReq(15, <<Field("state", Str(<<"I", "N", "I">>))>>),
      ParamsReq(11, <<Field("temp", Num(6300))>>),
      ParamsReq(33, <<Field("soc", Num(150)),
                      Field("capacity_ah", Num(15000))>>),
      ParamsReq(12, <<Field("soc", Num(9900))>>),
      ParamsReq(12, <<Field("soc", Num(500))>>),
      ParamsReq(12, <<Field("soc", Num(9400))>>),
      ParamsReq(12, <<Field("soh", Num(-5000))>>),
      ParamsReq(11, <<Field("soc", NanText)>>),
      ParamsReq(32, <<Field("soc", Num(12000)),
                      Field("soh", Num(3000)),
                      Field("temp", Num(9500))>>),
      ParamsReq(0, <<>>),
      ParamsReq(130, <<Field("temp_critical", Num(3000)),
                       Field("state", Str(ISO_TEXT))>>) }

ParamsLenOk(len) == ~(len <= 0 \/ len >= 128)

\* mutant: the key is searched without its closing quote, so "soh" and "temp" are
\* also found in the threshold names they begin
KeyMatches_m(name, key) ==
    \/ name = key
    \/ key = "soh" /\ name \in {"soh_critical", "soh_warning"}
    \/ key = "temp" /\ name \in {"temp_critical", "temp_warning"}

KeyMatches(name, key) == name = key

\* strstr(json, key): index of the first field named key, 0 when there is none
Find(fields, key) ==
    IF \E i \in 1..Len(fields) : KeyMatches(fields[i].key, key)
    THEN CHOOSE i \in 1..Len(fields) :
            /\ KeyMatches(fields[i].key, key)
            /\ \A j \in 1..(i - 1) : ~KeyMatches(fields[j].key, key)
    ELSE 0

\* mutant: the parsed value is stored also when the key is absent
PARSE_FLOAT_m(fields, key, var) ==
    IF Find(fields, key) # 0 THEN atof(fields[Find(fields, key)].tok) ELSE 0

PARSE_FLOAT(fields, key, var) ==
    IF Find(fields, key) # 0 THEN atof(fields[Find(fields, key)].tok) ELSE var

PARSE_UINT(fields, key, var) ==
    IF Find(fields, key) # 0 THEN strtoul(fields[Find(fields, key)].tok) ELSE var

\* the text after the first '"' that follows the colon of "state"; keys of later
\* fields (which that '"' opens when the value is unquoted) do not start with ISO
StateText(fields) ==
    IF Find(fields, "state") # 0 /\ fields[Find(fields, "state")].tok.k = "str"
    THEN fields[Find(fields, "state")].tok.s
    ELSE <<>>

\* strncmp(q, "ISO", 3) == 0
IsoDirective(fields) ==
    /\ Len(StateText(fields)) >= 3
    /\ SubSeq(StateText(fields), 1, 3) = ISO_TEXT

\* the state directive: only ISO is acted upon, from any lifecycle state
ParamsState(fields, st) == IF IsoDirective(fields) THEN STATE_ISOLATED ELSE st

ParamsSetpoint(fields, p) == IF IsoDirective(fields) THEN 0 ELSE p

\* mutant: the current is not zeroed
ParamsCurrent_m(fields, i) == i

ParamsCurrent(fields, i) == IF IsoDirective(fields) THEN 0 ELSE i

res_params_put_handler(req) ==
    /\ n_msgs < MaxMsgs
    /\ n_msgs' = n_msgs + 1
    /\ IF ~ParamsLenOk(req.len)
       THEN /\ Observed("res_params_put_handler", BAD_REQUEST_4_00, FALSE, NoMid)
            /\ UNCHANGED <<current_state, power_setpoint, elec, thresholds>>
       ELSE /\ soh_critical' = PARSE_FLOAT(req.fields, "soh_critical", soh_critical)
            /\ soh_warning' = PARSE_FLOAT(req.fields, "soh_warning", soh_warning)
            /\ temp_critical' = PARSE_FLOAT(req.fields, "temp_critical", temp_critical)
            /\ temp_warning' = PARSE_FLOAT(req.fields, "temp_warning", temp_warning)
            /\ cycles_warning' = PARSE_UINT(req.fields, "cycles_warning", cycles_warning)
            /\ bat_soc' = PARSE_FLOAT(req.fields, "soc", bat_soc)
            /\ bat_soh' = PARSE_FLOAT(req.fields, "soh", bat_soh)
            /\ bat_temp' = PARSE_FLOAT(req.fields, "temp", bat_temp)
            /\ bat_capacity_ah' = PARSE_FLOAT(req.fields, "capacity_ah", bat_capacity_ah)
            /\ current_state' = ParamsState(req.fields, current_state)
            /\ power_setpoint' = ParamsSetpoint(req.fields, power_setpoint)
            /\ bat_current' = ParamsCurrent(req.fields, bat_current)
            /\ UNCHANGED bat_voltage
            /\ Observed("res_params_put_handler", CHANGED_2_04,
                        IsoDirective(req.fields), NoMid)
    /\ UNCHANGED <<aging, ml_buffer, proc, n_ticks, cvars>>

(* ------------------------------------------------------------------ *)
(* Physical model: update_sensors_and_buffer                          *)
(* ------------------------------------------------------------------ *)
\* the unit's physical state as one record
Unit ==
    [ st |-> current_state, p |-> power_setpoint, v |-> bat_voltage,
      i |-> bat_current, t |-> bat_temp, soc |-> bat_soc, soh |-> bat_soh,
      cap |-> bat_capacity_ah, cycles |-> charge_cycles,
      ah |-> total_ah_throughput, peak |-> peak_temp_reached,
      wc |-> was_charging, buf |-> ml_buffer ]

\* (random_rand() % 100) / 50 - 1, in percent: -100, -98, .., 98; the draws of
\* one tick (current, voltage, temperature) explored at both extremes
NoiseLevels == {-100, 98}
NoiseDraws == {<<lvl, lvl, lvl>> : lvl \in NoiseLevels}

get_random_noise(magnitude, lvl) == FScale(magnitude, lvl, 100)

\* mutant: no cut-off, a discharge command is only derated
DerateDischarge_m(eff, soc) ==
    IF FLt(eff, -5) /\ FLt(soc, 1000) /\ FGt(soc, 200)
    THEN FScale(eff, soc - 200, 800)
    ELSE eff

\* step 0, discharge command: cut off at SoC <= 2%, derated below 10%
DerateDischarge(eff, soc) ==
    IF FLt(eff, -5)
    THEN IF FLe(soc, 200) THEN 0
         ELSE IF FLt(soc, 1000) THEN FScale(eff, soc - 200, 800)
         ELSE eff
    ELSE eff

\* mutant: a charge command is cut off but not derated
DerateCharge_m(eff, soc) ==
    IF FGt(eff, 5) /\ FGe(soc, 9800) THEN 0 ELSE eff

\* step 0, charge command: cut off at SoC >= 98%, derated above 90%
DerateCharge(eff, soc) ==
    IF FGt(eff, 5)
    THEN IF FGe(soc, 9800) THEN 0
         ELSE IF FGt(soc, 9000) THEN FScale(eff, 9800 - soc, 800)
         ELSE eff
    ELSE eff

EffectivePower(p, soc) == DerateCharge(DerateDischarge(p, soc), soc)

FClamp(x, lo, hi) == IF FGt(x, hi) THEN hi ELSE IF FLt(x, lo) THEN lo ELSE x

OCV(soc) == FAdd(3000, FScale(soc, 12, 100))

\* steps 1-2: current from power, C-rate limit, terminal voltage
Current(p, soc, lvl) ==
    LET req == IF FGt(OCV(soc), 100) THEN FQuot(p, 10000, OCV(soc)) ELSE 0
        raw == FAdd(req, get_random_noise(FScale(FAbs(req), 2, 100), lvl))
    IN  FClamp(raw, -300000, 300000)

Voltage(i, soc, lvl) ==
    LET v0 == FSub(OCV(soc), FScale(i, 8, 1000))
        v1 == IF FLt(soc, 1000) THEN FSub(v0, FScale(FSub(1000, soc), 1, 5)) ELSE v0
        v2 == IF FGt(soc, 9000) THEN FAdd(v1, FScale(FSub(soc, 9000), 1, 20)) ELSE v1
    IN  FAdd(FClamp(v2, 3000, 4200), get_random_noise(10, lvl))

\* step 3: SoC integration; efficiency 0.92 charging, 1/0.92 otherwise
DeltaSoc(p, i, soh) ==
    IF FGt(i, 0) THEN FQuot(p, 3453, FScale(soh, 1000, 1))
    ELSE FQuot(p, 4080, FScale(soh, 1000, 1))

SocAfter(p, i, soc, soh) == FAdd(soc, DeltaSoc(p, i, soh))

ClampSoc(soc) == IF FGt(soc, 10000) THEN 10000 ELSE IF FLt(soc, 0) THEN 0 ELSE soc

\* step 4: thermal update
PowerLoss(i) == IF i = NaN THEN NaN ELSE TDiv(TDiv(i, 10) * TDiv(i, 10), 125000)

TempAfter(i, t, lvl) ==
    LET delta == FScale(FSub(PowerLoss(i), FScale(FSub(t, 2500), 2, 1)), 1, 50)
    IN  FAdd(FAdd(t, delta), get_random_noise(50, lvl))

ClampTemp(t) == IF FLt(t, 0) THEN 0 ELSE IF FGt(t, 8000) THEN 8000 ELSE t

\* step 5: aging, in 1e-6 per tick
Degradation(cycles, ah, t, soc, i) ==
    LET cycle_d == cycles * 800
        thr_d == FScale(ah, 1, 2)
        t1 == IF FGt(t, 4000) THEN FSub(t, 4000) ELSE 0
        temp_d == IF FGt(t, 5500) THEN FAdd(t1, FScale(FSub(t, 5500), 5, 1)) ELSE t1
        s1 == IF FLt(soc, 1500) THEN FScale(FSub(1500, soc), 2, 100) ELSE 0
        soc_d == IF FGt(soc, 9500) THEN FScale(FSub(soc, 9500), 1, 100) ELSE s1
        c_d == IF FGt(FAbs(i), 60000) THEN FScale(FSub(FAbs(i), 60000), 3, 2000) ELSE 0
    IN  FAdd(FAdd(FAdd(FAdd(cycle_d, thr_d), temp_d), soc_d), c_d)

ClampSoh(soh) == IF FGt(soh, 10000) THEN 10000 ELSE IF FLt(soh, 5000) THEN 5000 ELSE soh

\* the feature row appended to the window
Features(u) ==
    << FScale(u.v, 100, 42), FAdd(FScale(u.i, 1, 20), 5000), FScale(u.t, 5, 4), u.soc >>

ShiftBuffer(u) ==
    [u EXCEPT !.buf = Append(Tail(u.buf), Features(u))]

update_sensors_and_buffer(u, lvl_i, lvl_v, lvl_t) ==
    IF u.st = STATE_RUNNING
    THEN LET p == EffectivePower(u.p, u.soc)
             i == Current(p, u.soc, lvl_i)
             v == Voltage(i, u.soc, lvl_v)
             soc1 == SocAfter(p, i, u.soc, u.soh)
             ah == FAdd(u.ah, FScale(FAbs(i), 1, 3600))
             is_charging == FGt(i, 50)
             cycles == IF is_charging /\ ~u.wc /\ FLt(soc1, 5000)
                       THEN u.cycles + 1 ELSE u.cycles
             soc == ClampSoc(soc1)
             t1 == TempAfter(i, u.t, lvl_t)
             peak == IF FGt(t1, u.peak) THEN t1 ELSE u.peak
             t == ClampTemp(t1)
             soh == ClampSoh(FSub(u.soh, FScale(Degradation(cycles, ah, t, soc, i), 1, 100)))
         IN  ShiftBuffer([u EXCEPT !.p = p, !.i = i, !.v = v, !.soc = soc, !.ah = ah,
                                   !.cycles = cycles, !.wc = is_charging, !.t = t,
                                   !.peak = peak, !.soh = soh, !.cap = FScale(soh, 2, 1)])
    ELSE ShiftBuffer(u)

(* ------------------------------------------------------------------ *)
(* Safety evaluation: check_safety                                    *)
(* ------------------------------------------------------------------ *)
\* outputs of battery_soh_regress1 (external regression model)
\* raw outputs of the regression network, 1e-4: -5, 0, 95 and 250
RegressOutputs == {-50000, 0, 950000, 2500000}

\* battery_soh_regress1 (battery_soh_model.h): the raw output clamped to [0, 100]
\* and scaled to [0, 1]
battery_soh_regress1(raw) == FScale(FClamp(raw, 0, 1000000), 1, 100)

\* mutant: the blend weights are exchanged
CombinedSoh_m(predicted_soh, soh, t, soc) ==
    LET c0 == FAdd(FScale(predicted_soh, 3, 10), FScale(soh, 7, 10))
        c1 == IF FGt(t, 4500) THEN FSub(c0, FScale(FSub(t, 4500), 1, 10)) ELSE c0
        c2 == IF FLt(soc, 1000) THEN FSub(c1, FScale(FSub(1000, soc), 1, 50)) ELSE c1
    IN  IF FGt(c2, 10000) THEN 10000 ELSE IF FLt(c2, 5000) THEN 5000 ELSE c2

CombinedSoh(predicted_soh, soh, t, soc) ==
    LET c0 == FAdd(FScale(predicted_soh, 7, 10), FScale(soh, 3, 10))
        c1 == IF FGt(t, 4500) THEN FSub(c0, FScale(FSub(t, 4500), 1, 10)) ELSE c0
        c2 == IF FLt(soc, 1000) THEN FSub(c1, FScale(FSub(1000, soc), 1, 50)) ELSE c1
    IN  IF FGt(c2, 10000) THEN 10000 ELSE IF FLt(c2, 5000) THEN 5000 ELSE c2

FilterSoh(soh, combined) == FAdd(FScale(soh, 95, 100), FScale(combined, 5, 100))

\* mutant: the temperature limit is not evaluated
Critical_m(soh, t, soh_crit, temp_crit) == FLt(soh, soh_crit)

Critical(soh, t, soh_crit, temp_crit) == FLt(soh, soh_crit) \/ FGt(t, temp_crit)

Warning(soh, t, cycles, soh_warn, temp_warn, cycles_warn) ==
    FLt(soh, soh_warn) \/ FGt(t, temp_warn) \/ cycles > cycles_warn

\* the unit after check_safety; .notify tells whether observers were notified
check_safety(u, predicted_soh, soh_crit, temp_crit) ==
    LET soh == FilterSoh(u.soh, CombinedSoh(predicted_soh, u.soh, u.t, u.soc))
        u1 == [u EXCEPT !.soh = soh, !.cap = FScale(soh, 2, 1)]
    IN  IF Critical(soh, u.t, soh_crit, temp_crit)
        THEN [u |-> [u1 EXCEPT !.st = STATE_ISOLATED, !.p = 0, !.i = 0], notify |-> TRUE]
        ELSE [u |-> u1, notify |-> FALSE]

(* ------------------------------------------------------------------ *)
(* PROCESS_THREAD(battery_controller)                                 *)
(* ------------------------------------------------------------------ *)
RegResponses == {CREATED_2_01, CHANGED_2_04, SERVICE_UNAVAILABLE_5_03, NO_RESPONSE}

\* mutant: any response counts as a success
reg_callback_m(code, st) == IF code # NO_RESPONSE THEN STATE_RUNNING ELSE st

\* reg_callback: the lifecycle state it leaves
reg_callback(code, st) ==
    IF code # NO_RESPONSE /\ (code = CREATED_2_01 \/ code = CHANGED_2_04)
    THEN STATE_RUNNING
    ELSE st

\* mutant: the loop allows one attempt more
RegLoopNext_m(st, retries) ==
    IF st = STATE_INIT /\ retries <= MAX_RETRY
    THEN IF retries > 0 THEN "reg_backoff" ELSE "reg_blocked"
    ELSE IF st # STATE_RUNNING THEN "halted" ELSE "main"

\* the head of the registration loop and what follows it, up to the next wait
RegLoopNext(st, retries) ==
    IF st = STATE_INIT /\ retries < MAX_RETRY
    THEN IF retries > 0 THEN "reg_backoff" ELSE "reg_blocked"
    ELSE IF st # STATE_RUNNING THEN "halted" ELSE "main"

\* the 10 s start-up wait ends: enter the registration loop
InitWaitExpired ==
    /\ pc = "init_wait"
    /\ pc' = RegLoopNext(current_state, retry_count)
    /\ UNCHANGED <<unit, retry_count, obs, counters, cvars, net>>

\* the 5 s backoff ends: the registration request is sent
BackoffExpired ==
    /\ pc = "reg_backoff"
    /\ pc' = "reg_blocked"
    /\ UNCHANGED <<unit, retry_count, obs, counters, cvars, net>>

\* COAP_BLOCKING_REQUEST ends with a response or a timeout
RegAttempt(code) ==
    /\ pc = "reg_blocked"
    /\ current_state' = reg_callback(code, current_state)
    /\ retry_count' = retry_count + 1
    /\ pc' = IF current_state' = STATE_RUNNING THEN "main"
             ELSE RegLoopNext(current_state', retry_count')
    /\ Observed("reg_callback", code, FALSE, NoMid)
    /\ UNCHANGED <<power_setpoint, elec, aging, ml_buffer, thresholds, counters, cvars>>

\* the same, explored for a bounded number of failed attempts
RegResponse(code) ==
    /\ reg_callback(code, STATE_INIT) = STATE_INIT => retry_count < MaxRegFailures
    /\ RegAttempt(code)

\* et_loop expires in the main loop
\* mutant: the physical model is advanced in every state
Advanced_m(u, lvl_i, lvl_v, lvl_t) == update_sensors_and_buffer(u, lvl_i, lvl_v, lvl_t)

\* if(current_state != STATE_ISOLATED) update_sensors_and_buffer();
Advanced(u, lvl_i, lvl_v, lvl_t) ==
    IF u.st # STATE_ISOLATED THEN update_sensors_and_buffer(u, lvl_i, lvl_v, lvl_t) ELSE u

Tick(lvl_i, lvl_v, lvl_t, raw_soh) ==
    /\ pc = "main"
    /\ n_ticks < MaxTicks
    /\ n_ticks' = n_ticks + 1
    /\ \E u1 \in { Advanced(Unit, lvl_i, lvl_v, lvl_t) } :
       \E r \in { IF u1.st = STATE_RUNNING
                  THEN check_safety(u1, battery_soh_regress1(raw_soh),
                                    soh_critical, temp_critical)
                  ELSE [u |-> u1, notify |-> FALSE] } :
           /\ current_state' = r.u.st
           /\ power_setpoint' = r.u.p
           /\ bat_voltage' = r.u.v
           /\ bat_current' = r.u.i
           /\ bat_temp' = r.u.t
           /\ bat_soc' = r.u.soc
           /\ bat_soh' = r.u.soh
           /\ bat_capacity_ah' = r.u.cap
           /\ charge_cycles' = r.u.cycles
           /\ total_ah_throughput' = r.u.ah
           /\ peak_temp_reached' = r.u.peak
           /\ was_charging' = r.u.wc
           /\ ml_buffer' = r.u.buf
           /\ Observed("et_loop", "none", r.notify,
                       [run |-> u1.st = STATE_RUNNING, p0 |-> power_setpoint,
                        soc0 |-> bat_soc, soh0 |-> bat_soh, p |-> u1.p, i |-> u1.i,
                        t |-> u1.t, soc |-> u1.soc, soh |-> u1.soh,
                        r |-> raw_soh])
    /\ UNCHANGED <<thresholds, proc, n_msgs, cvars>>

\* et_notify expires in the main loop
NotifyTimer ==
    /\ pc = "main"
    /\ UNCHANGED <<unit, proc, counters, cvars>>
    /\ IF current_state = STATE_RUNNING
       THEN Observed("et_notify", "none", TRUE, NoMid)
       ELSE UNCHANGED <<obs, net>>

\* button_hal_release_event: acted upon only by the main loop; while the process
\* waits elsewhere (start-up wait, backoff, blocking request) or has exited, the
\* event is dropped
ButtonRelease ==
    /\ IF pc = "main" /\ current_state = STATE_ISOLATED
       THEN /\ current_state' = STATE_RUNNING
            /\ bat_soh' = 10000
            /\ bat_capacity_ah' = SCALED_CAPACITY_AH
            /\ bat_temp' = 2500
            /\ power_setpoint' = 0
            /\ charge_cycles' = 0
            /\ total_ah_throughput' = 0
            /\ peak_temp_reached' = 2500
            /\ was_charging' = FALSE
            /\ UNCHANGED <<bat_voltage, bat_current, bat_soc, ml_buffer>>
            /\ Observed("button_release", "none", FALSE, NoMid)
       ELSE /\ UNCHANGED <<current_state, power_setpoint, elec, aging, ml_buffer>>
            /\ Observed("button_release", "ignored", FALSE, NoMid)
    /\ UNCHANGED <<thresholds, proc, counters, cvars>>

Next ==
    \/ \E req \in PowerPayloads : res_power_put_handler(req)
    \/ \E req \in ParamBodies : res_params_put_handler(req)
    \/ InitWaitExpired
    \/ BackoffExpired
    \/ \E code \in RegResponses : RegResponse(code)
    \/ \E draw \in NoiseDraws, raw_soh \in RegressOutputs :
          Tick(draw[1], draw[2], draw[3], raw_soh)
    \/ NotifyTimer
    \/ ButtonRelease

Spec == Init /\ [][Next]_vars

\* the unit with every registration attempt the loop allows
RetryNext ==
    \/ \E req \in PowerPayloads : res_power_put_handler(req)
    \/ \E req \in ParamBodies : res_params_put_handler(req)
    \/ InitWaitExpired
    \/ BackoffExpired
    \/ \E code \in RegResponses : RegAttempt(code)
    \/ \E draw \in NoiseDraws, raw_soh \in RegressOutputs :
          Tick(draw[1], draw[2], draw[3], raw_soh)
    \/ NotifyTimer
    \/ ButtonRelease

RetrySpec == Init /\ [][RetryNext]_vars

(* ------------------------------------------------------------------ *)
(* Coordinator: registry and its CoAP handlers                        *)
(* ------------------------------------------------------------------ *)
\* addresses of the units that talk to the coordinator
Addrs == {UnitAddr, "fd00::203"}

\* what the coordinator's CoAP handler that ran last answered
UgObserved(op, code) == ug_op' = op /\ ug_resp' = code

\* mutant: a new entry is marked as already subscribed
NewEntry_m(src) ==
    [ ip |-> src, active |-> TRUE, obs_requested |-> TRUE,
      current_soc |-> 5000, current_voltage |-> 0, current_temp |-> 2500,
      current_soh |-> 10000, current_current |-> 0, optimal_u |-> 0,
      actual_power |-> 0, state |-> INI_TEXT, has_objective |-> FALSE,
      objective_power |-> 0 ]

\* mutant: a new entry is not marked active
NewEntry_idle(src) ==
    [ ip |-> src, active |-> FALSE, obs_requested |-> FALSE,
      current_soc |-> 5000, current_voltage |-> 0, current_temp |-> 2500,
      current_soh |-> 10000, current_current |-> 0, optimal_u |-> 0,
      actual_power |-> 0, state |-> INI_TEXT, has_objective |-> FALSE,
      objective_power |-> 0 ]

\* the slot res_reg_h fills for sender src
NewEntry(src) ==
    [ ip |-> src, active |-> TRUE, obs_requested |-> FALSE,
      current_soc |-> 5000, current_voltage |-> 0, current_temp |-> 2500,
      current_soh |-> 10000, current_current |-> 0, optimal_u |-> 0,
      actual_power |-> 0, state |-> INI_TEXT, has_objective |-> FALSE,
      objective_power |-> 0 ]

\* mutant: every registration is written to slot 0
RegSlot_first(count) == 0

\* mutant: a full registry overwrites its last slot
RegSlot_m(count) == IF count < MAX_BATTERIES THEN count ELSE MAX_BATTERIES - 1

\* the slot a registration is written to; MAX_BATTERIES when there is none
RegSlot(count) == IF count < MAX_BATTERIES THEN count ELSE MAX_BATTERIES

\* POST dev/register from src (the resource exists once the start-up wait is over)
res_reg_h(src) ==
    /\ ug_pc # "init_wait"
    /\ n_posts' = n_posts + 1
    /\ IF RegSlot(battery_count) < MAX_BATTERIES
       THEN /\ batteries' = [batteries EXCEPT ![RegSlot(battery_count)] = NewEntry(src)]
            /\ battery_count' = RegSlot(battery_count) + 1
            /\ ev_msg' = TRUE
            /\ UgObserved("res_reg_h", CREATED_2_01)
       ELSE /\ UNCHANGED <<batteries, battery_count, ev_msg>>
            /\ UgObserved("res_reg_h", SERVICE_UNAVAILABLE_5_03)
    /\ UNCHANGED <<cost, ug_pc, disp_i, exchanges, et_observe_setup, sent,
                   n_reqs, n_cycles, uvars, net>>

Notifications ==
    { Telemetry(58, <<Field("V", Num(3700)), Field("I", Num(-250)),
                      Field("T", Num(2850)), Field("S", Num(4500)),
                      Field("H", Num(9800)), Field("St", Str(RUN_TEXT))>>),
      Telemetry(56, <<Field("V", Num(3540)), Field("I", Num(0)),
                      Field("T", Num(6100)), Field("S", Num(4500)),
                      Field("H", Num(9700)), Field("St", Str(ISO_TEXT))>>),
      Telemetry(10, <<Field("S", Num(2000))>>),
      Telemetry(0, <<>>) }

\* atof(ptr + 4) behind a key, 0.0f when the key is absent
ReadFloat(fields, key) ==
    IF Find(fields, key) # 0 THEN atof(fields[Find(fields, key)].tok) ELSE 0

\* mutant: the state text is not copied
ReadState_m(fields, old) == old

\* the first three characters of the "St" text
ReadState(fields, old) ==
    IF Find(fields, "St") # 0 /\ fields[Find(fields, "St")].tok.k = "str"
    THEN LET text == fields[Find(fields, "St")].tok.s
         IN  SubSeq(text, 1, IF Len(text) < 3 THEN Len(text) ELSE 3)
    ELSE old

\* a * b for two floats with fixed-point scale d
FMul(a, b, d) ==
    IF a = NaN \/ b = NaN THEN NaN
    ELSE IF ~IsFinite(a) \/ ~IsFinite(b)
    THEN (IF a = 0 \/ b = 0 THEN NaN ELSE IF (a > 0) = (b > 0) THEN Inf ELSE -Inf)
    ELSE Sat(TDiv(a * b, d))

\* the first slot below count that holds address src; count when there is none
SlotOf(bs, count, src) ==
    IF \E k \in 0..(count - 1) : bs[k].ip = src
    THEN CHOOSE k \in 0..(count - 1) :
            bs[k].ip = src /\ \A j \in 0..(k - 1) : bs[j].ip # src
    ELSE count

Mirror(e, fields) ==
    [e EXCEPT !.current_soc = ReadFloat(fields, "S"),
              !.current_voltage = ReadFloat(fields, "V"),
              !.current_temp = ReadFloat(fields, "T"),
              !.current_soh = ReadFloat(fields, "H"),
              !.current_current = ReadFloat(fields, "I"),
              !.actual_power = FMul(ReadFloat(fields, "V"), ReadFloat(fields, "I"), 10000),
              !.state = ReadState(fields, e.state)]

\* a notification from src on a subscription the coordinator holds
battery_notification_handler(src, note) ==
    /\ \E k \in 0..(battery_count - 1) : batteries[k].ip = src /\ batteries[k].obs_requested
    /\ n_reqs' = n_reqs + 1
    /\ batteries' =
          IF note.len > 0 /\ SlotOf(batteries, battery_count, src) < battery_count
          THEN [batteries EXCEPT ![SlotOf(batteries, battery_count, src)] =
                                     Mirror(@, note.fields)]
          ELSE batteries
    /\ UgObserved("battery_notification_handler", "none")
    /\ UNCHANGED <<battery_count, cost, ug_proc, sent, n_posts, n_cycles, uvars>>

(* ------------------------------------------------------------------ *)
(* Coordinator: PUT ctrl/obj                                          *)
(* ------------------------------------------------------------------ *)
ObjReq(len, fields) == [len |-> len, tok |-> Junk, fields |-> fields]

ObjBodies ==
    { ObjReq(25, <<Field("idx", Num(0)), Field("power_kw", Num(30000))>>),
      ObjReq(26, <<Field("idx", Num(1)), Field("power_kw", Num(-250000))>>),
      ObjReq(35, <<Field("idx", Num(0)), Field("clear", Num(1)),
                   Field("power_kw", Num(50000))>>),
      ObjReq(16, <<Field("power_kw", Num(10000))>>),
      ObjReq(24, <<Field("idx", Num(0)), Field("power_kw", NanText)>>),
      ObjReq(26, <<Field("idx", Num(-1)), Field("power_kw", Num(10000))>>),
      ObjReq(25, <<Field("idx", Num(MAX_BATTERIES)), Field("power_kw", Num(10000))>>),
      ObjReq(0, <<>>) }

\* (int)strtol(.., 10): 0 when no conversion can be performed
strtol(tok) == IF tok.k = "num" THEN tok.v ELSE 0

\* mutant: an absent key reads as 0
PARSE_INT_FIELD_m(fields, key, var) ==
    IF Find(fields, key) # 0 THEN strtol(fields[Find(fields, key)].tok) ELSE 0

PARSE_INT_FIELD(fields, key, var) ==
    IF Find(fields, key) # 0 THEN strtol(fields[Find(fields, key)].tok) ELSE var

PARSE_FLOAT_FIELD(fields, key, var) ==
    IF Find(fields, key) # 0 THEN atof(fields[Find(fields, key)].tok) ELSE var

ClampKw(kw) ==
    IF FGt(kw, BAT_MAX_POWER_KW) THEN BAT_MAX_POWER_KW
    ELSE IF FLt(kw, -BAT_MAX_POWER_KW) THEN -BAT_MAX_POWER_KW
    ELSE kw

res_obj_put_handler(req) ==
    /\ ug_pc # "init_wait"
    /\ n_reqs' = n_reqs + 1
    /\ LET idx == PARSE_INT_FIELD(req.fields, "idx", -1)
           clear == PARSE_INT_FIELD(req.fields, "clear", 0)
           power_kw == PARSE_FLOAT_FIELD(req.fields, "power_kw", 0)
           has_power == Find(req.fields, "power_kw") # 0
       IN  IF req.len <= 0 \/ req.len >= 128
           THEN UgObserved("res_obj_put_handler", BAD_REQUEST_4_00) /\ UNCHANGED batteries
           ELSE IF idx < 0 \/ idx >= battery_count \/ ~batteries[idx].active
           THEN UgObserved("res_obj_put_handler", BAD_REQUEST_4_00) /\ UNCHANGED batteries
           ELSE IF clear # 0
           THEN /\ batteries' = [batteries EXCEPT ![idx].has_objective = FALSE,
                                                  ![idx].objective_power = 0]
                /\ UgObserved("res_obj_put_handler", CHANGED_2_04)
           ELSE IF ~has_power
           THEN UgObserved("res_obj_put_handler", BAD_REQUEST_4_00) /\ UNCHANGED batteries
           ELSE /\ batteries' = [batteries EXCEPT ![idx].has_objective = TRUE,
                                                  ![idx].objective_power = ClampKw(power_kw)]
                /\ UgObserved("res_obj_put_handler", CHANGED_2_04)
    /\ UNCHANGED <<battery_count, cost, ug_proc, sent, n_posts, n_cycles, uvars, net>>

(* ------------------------------------------------------------------ *)
(* Coordinator: PUT ctrl/mpc                                          *)
(* ------------------------------------------------------------------ *)
MpcReq(len, fields) == [len |-> len, tok |-> Junk, fields |-> fields]

MpcBodies ==
    { MpcReq(26, <<Field("alpha", Num(200)), Field("price", Num(50))>>),
      MpcReq(24, <<Field("beta", Num(50)), Field("gama", Num(1000))>>),
      MpcReq(27, <<Field("price", Num(30)), Field("price", Num(90))>>),
      MpcReq(12, <<Field("gama", Junk)>>),
      MpcReq(13, <<Field("alpha", NanText)>>),
      MpcReq(9, <<Field("foo", Num(100))>>),
      MpcReq(0, <<>>) }

res_mpc_put_handler(req) ==
    /\ ug_pc # "init_wait"
    /\ n_reqs' = n_reqs + 1
    /\ IF req.len <= 0 \/ req.len >= 128
       THEN /\ UgObserved("res_mpc_put_handler", BAD_REQUEST_4_00)
            /\ UNCHANGED cost
       ELSE /\ alpha' = PARSE_FLOAT(req.fields, "alpha", alpha)
            /\ beta' = PARSE_FLOAT(req.fields, "beta", beta)
            /\ gama' = PARSE_FLOAT(req.fields, "gama", gama)
            /\ price' = PARSE_FLOAT(req.fields, "price", price)
            /\ UgObserved("res_mpc_put_handler", CHANGED_2_04)
    /\ UNCHANGED <<registry, ug_proc, sent, n_posts, n_cycles, uvars, net>>

(* ------------------------------------------------------------------ *)
(* Coordinator: optimizer (run_mpc)                                   *)
(* ------------------------------------------------------------------ *)
\* mutant: the objective is not copied into optimal_u
SeedObjective_m(e) == e

\* first loop of run_mpc: an entry with a manual objective takes it as optimal_u
SeedObjective(e) ==
    IF e.active /\ e.has_objective THEN [e EXCEPT !.optimal_u = e.objective_power] ELSE e

\* the entries the gradient steps update
Optimised(e) == e.active /\ e.state # ISO_TEXT /\ ~e.has_objective

\* one projected gradient step: K_FACT 0.05, SOC_REF 0.5, LEARNING_RATE 0.1
PgdStepSpecial(u, soc, a, b, g, pr) ==
    LET soc_term == FSub(FAdd(soc, FScale(u, 5, 100)), 5000)
        grad == FAdd(FAdd(FMul(a, pr, 1),
                          FScale(FMul(b, u, 100), 2, 1)),
                     FScale(FMul(FScale(g, 2, 1), soc_term, 100), 5, 100))
    IN  ClampKw(FSub(u, FScale(grad, 1, 10)))

\* the same step when every operand is a finite number
PgdStepFinite(u, soc, a, b, g, pr) ==
    ClampKw(Sat(u - TDiv(a * pr + 2 * TDiv(b * u, 100)
                           + TDiv(5 * TDiv(2 * g * (soc + TDiv(u * 5, 100) - 5000), 100), 100),
                         10)))

PgdStep(u, soc, a, b, g, pr) ==
    IF \A x \in {u, soc, a, b, g, pr} : IsFinite(x)
    THEN PgdStepFinite(u, soc, a, b, g, pr)
    ELSE PgdStepSpecial(u, soc, a, b, g, pr)

\* mutant: one gradient step per run
PgdSteps_m(u0, soc, iters, a, b, g, pr) == PgdStep(u0, soc, a, b, g, pr)

\* the steps one entry takes over the iterations of the outer loop (every step
\* of a NaN yields NaN again)
PgdSteps(u0, soc, iters, a, b, g, pr) ==
    LET RECURSIVE Iter(_, _)
        Iter(u, n) ==
            IF u = NaN \/ n = 0 THEN u ELSE Iter(PgdStep(u, soc, a, b, g, pr), n - 1)
    IN  Iter(u0, iters)

\* mutant: every entry is stepped with the SoC of slot 0
Pgd_m(bs, count, iters, a, b, g, pr) ==
    [k \in DOMAIN bs |->
        IF k < count /\ Optimised(bs[k])
        THEN [bs[k] EXCEPT !.optimal_u = PgdSteps(bs[k].optimal_u, bs[0].current_soc,
                                                  iters, a, b, g, pr)]
        ELSE bs[k]]

\* the PGD loops: a step reads and writes only the entry it updates, and which
\* entries are updated does not change during the run, so the iterations are
\* taken entry by entry
Pgd(bs, count, iters, a, b, g, pr) ==
    [k \in DOMAIN bs |->
        IF k < count /\ Optimised(bs[k])
        THEN [bs[k] EXCEPT !.optimal_u = PgdSteps(bs[k].optimal_u, bs[k].current_soc,
                                                  iters, a, b, g, pr)]
        ELSE bs[k]]

\* the registry after run_mpc
run_mpc(bs, count, a, b, g, pr) ==
    Pgd([k \in DOMAIN bs |-> IF k < count THEN SeedObjective(bs[k]) ELSE bs[k]],
        count, PGD_ITERATIONS, a, b, g, pr)

(* ------------------------------------------------------------------ *)
(* PROCESS_THREAD(ugrid_controller)                                   *)
(* ------------------------------------------------------------------ *)
\* mutant: the optimizer's value is sent also when there is a manual objective
EffectiveCmd_m(e) == e.optimal_u

\* the command of an entry, kW
EffectiveCmd(e) == IF e.has_objective THEN e.objective_power ELSE e.optimal_u

\* cmd_kw * 1000.0f: kW to W (both sides of the model count 0.1 W)
KwToWatts(kw) == FScale(kw, 1000, 1000)

\* snprintf(pl, 16, "%.2f", w): the text and its length
FormatWatts(w) == IF w = NaN THEN NanText ELSE Num(w)

TextLen(w) ==
    IF ~IsFinite(w) THEN 3
    ELSE LET n == (IF w < 0 THEN 1 ELSE 0) + Digits(FAbs(w) \div 10) + 3
         IN  IF n > 15 THEN 15 ELSE n

\* the PUT dev/power exchange for slot k
Command(bs, k) ==
    [ idx |-> k, to |-> bs[k].ip,
      req |-> PowerReq(TextLen(KwToWatts(EffectiveCmd(bs[k]))),
                       FormatWatts(KwToWatts(EffectiveCmd(bs[k])))) ]

\* mutant: isolated entries are commanded as well
Dispatchable_m(e) == e.active

Dispatchable(e) == e.active /\ e.state # ISO_TEXT

\* the dispatch loop from index from: the next slot to command, count when none
NextTarget(bs, count, from) ==
    IF \E k \in from..(count - 1) : Dispatchable(bs[k])
    THEN CHOOSE k \in from..(count - 1) :
            Dispatchable(bs[k]) /\ \A j \in from..(k - 1) : ~Dispatchable(bs[j])
    ELSE count

\* the dispatch loop runs from index from until it blocks in COAP_BLOCKING_REQUEST
\* or ends (etimer_reset(&et_compute), back to PROCESS_WAIT_EVENT)
DispatchFrom(bs, from, done, log) ==
    \E k \in {NextTarget(bs, battery_count, from)} :
       /\ disp_i' = k
       /\ IF k < battery_count
          THEN /\ exchanges' = (exchanges \ done) \cup {Command(bs, k)}
               /\ sent' = Append(log, Command(bs, k))
               /\ ug_pc' = "blocked"
          ELSE /\ exchanges' = exchanges \ done
               /\ sent' = log
               /\ ug_pc' = "main"

\* the 3 s start-up wait ends: resources are activated, both timers are set
UgInitWaitExpired ==
    /\ ug_pc = "init_wait"
    /\ ug_pc' = "main"
    /\ et_observe_setup' = TRUE
    /\ UNCHANGED <<registry, cost, disp_i, exchanges, ev_msg, ug_obs, ug_counters, uvars, net>>

\* et_compute expires: optimizer run, then the dispatch loop starts
ComputeTimer ==
    /\ ug_pc = "main"
    /\ n_cycles' = n_cycles + 1
    /\ \E bs \in {run_mpc(batteries, battery_count, alpha, beta, gama, price)} :
          /\ batteries' = bs
          /\ DispatchFrom(bs, 0, {}, <<>>)
    /\ UNCHANGED <<battery_count, cost, ev_msg, et_observe_setup, ug_op, ug_resp,
                   n_posts, n_reqs, uvars, net>>

ExchangeOutcomes == {CHANGED_2_04, FORBIDDEN_4_03, BAD_REQUEST_4_00, NO_RESPONSE}

\* mutant: a finished exchange is not retired
Completed_m(ex, k) == {}

\* the exchanges with slot k, which end when its blocking request returns
Completed(ex, k) == {c \in ex : c.idx = k}

\* mutant: a rejected command zeroes the optimizer's values
empty_cb_m(bs, response) ==
    IF response = FORBIDDEN_4_03
    THEN [k \in DOMAIN bs |-> [bs[k] EXCEPT !.optimal_u = 0]]
    ELSE bs

\* the response callback of the command exchange: silent
empty_cb(bs, response) == bs

\* the outstanding exchange ends with outcome: a response, handed to empty_cb, or
\* no response within the retransmissions; the loop goes on
ExchangeDone(outcome) ==
    /\ ug_pc = "blocked"
    /\ \E bs \in {IF outcome = NO_RESPONSE THEN batteries ELSE empty_cb(batteries, outcome)} :
          /\ batteries' = bs
          /\ DispatchFrom(bs, disp_i + 1, Completed(exchanges, disp_i), sent)
    /\ UNCHANGED <<battery_count, cost, ev_msg, et_observe_setup, ug_op, ug_resp,
                   ug_counters, uvars, net>>

\* the observe-setup loop: every active slot not yet subscribed is subscribed
ObserveSetup(bs, count) ==
    [k \in DOMAIN bs |->
        IF k < count /\ bs[k].active /\ ~bs[k].obs_requested
        THEN [bs[k] EXCEPT !.obs_requested = TRUE]
        ELSE bs[k]]

\* the responses to the observe requests of that loop: the unit, once its
\* resources are active, answers a request with its present dev/state body
ObserveResponses(bs, count) ==
    IF /\ pc # "init_wait"
       /\ \E k \in 0..(count - 1) :
             bs[k].ip = UnitAddr /\ bs[k].active /\ ~bs[k].obs_requested
    THEN {Note(current_state, bat_voltage, bat_current, bat_temp, bat_soc, bat_soh)}
    ELSE {}

\* PROCESS_EVENT_MSG is delivered: acted upon in the main wait, dropped while the
\* process waits inside COAP_BLOCKING_REQUEST
MsgEvent ==
    /\ ev_msg
    /\ ev_msg' = FALSE
    /\ IF ug_pc = "main"
       THEN /\ batteries' = ObserveSetup(batteries, battery_count)
            /\ net' = net \cup ObserveResponses(batteries, battery_count)
            /\ disp_i' = battery_count
            /\ et_observe_setup' = TRUE
       ELSE UNCHANGED <<batteries, net, disp_i, et_observe_setup>>
    /\ UNCHANGED <<battery_count, cost, ug_pc, exchanges, ug_obs, ug_counters, uvars>>

\* et_observe_setup expires: acted upon and reset in the main wait; while the
\* process waits inside COAP_BLOCKING_REQUEST the event is dropped and the timer
\* stays expired
ObserveTimer ==
    /\ et_observe_setup
    /\ IF ug_pc = "main"
       THEN /\ batteries' = ObserveSetup(batteries, battery_count)
            /\ net' = net \cup ObserveResponses(batteries, battery_count)
            /\ disp_i' = battery_count
            /\ UNCHANGED et_observe_setup
       ELSE /\ et_observe_setup' = FALSE
            /\ UNCHANGED <<batteries, net, disp_i>>
    /\ UNCHANGED <<battery_count, cost, ug_pc, exchanges, ev_msg, ug_obs, ug_counters, uvars>>

\* the requests the coordinator receives, within the bounds of the exploration
Register(max_posts) == n_posts < max_posts /\ \E src \in Addrs : res_reg_h(src)

Notify ==
    /\ n_reqs < MaxReqs
    /\ \E src \in Addrs, note \in Notifications : battery_notification_handler(src, note)
    /\ UNCHANGED net

PutObjective == n_reqs < MaxReqs /\ \E req \in ObjBodies : res_obj_put_handler(req)

\* control cycles are started for fleets of up to MaxFleet units
ControlCycle == n_cycles < MaxCycles /\ battery_count <= MaxFleet /\ ComputeTimer

\* the coordinator with its control cycles
CoordNext ==
    \/ Register(MaxPosts)
    \/ Notify
    \/ PutObjective
    \/ UgInitWaitExpired
    \/ ControlCycle
    \/ \E outcome \in ExchangeOutcomes : ExchangeDone(outcome)
    \/ MsgEvent
    \/ ObserveTimer

CoordSpec == Init /\ [][CoordNext]_vars

\* one unit under repeated control cycles: telemetry and cost parameters change
\* before the first cycle and stay as they are from then on
PutMpc == n_reqs < MaxReqs /\ \E req \in MpcBodies : res_mpc_put_handler(req)

OptimizerNext ==
    \/ Register(MaxOptPosts)
    \/ n_cycles = 0 /\ Notify
    \/ n_cycles = 0 /\ PutMpc
    \/ UgInitWaitExpired
    \/ n_cycles < MaxOptCycles /\ ComputeTimer
    \/ \E outcome \in ExchangeOutcomes : ExchangeDone(outcome)
    \/ MsgEvent
    \/ ObserveTimer

OptimizerSpec == Init /\ [][OptimizerNext]_vars

(* ------------------------------------------------------------------ *)
(* One unit and the coordinator: registration, subscription, mirror   *)
(* ------------------------------------------------------------------ *)
\* the unit's registration request reaches the coordinator while the unit waits
\* for the answer
FleetRegister == pc = "reg_blocked" /\ n_posts < MaxFleetPosts /\ res_reg_h(UnitAddr)

\* the unit's blocking request ends: with 2.01 if the coordinator has registered
\* it, or without an answer
FleetRegResponse ==
    \E code \in {CREATED_2_01, NO_RESPONSE} :
       /\ code = CREATED_2_01 => \E k \in 0..(battery_count - 1) : batteries[k].ip = UnitAddr
       /\ RegResponse(code)

\* remote parameter updates: the isolation directive and an SoC overwrite
FleetParams ==
    \E req \in {b \in ParamBodies :
                   b.len < 128 /\ (IsoDirective(b.fields) \/ Find(b.fields, "capacity_ah") # 0)} :
       res_params_put_handler(req)

\* a notification in flight reaches the coordinator, in any order
Deliver ==
    /\ n_reqs < MaxFleetNotes
    /\ \E m \in net :
          /\ net' = net \ {m}
          /\ battery_notification_handler(UnitAddr, m.body)

\* the unit and the coordinator take their steps in any order; a step that may
\* send a notification is explored while fewer than MaxInFlight are on their way
FleetNext ==
    \/ InitWaitExpired
    \/ BackoffExpired
    \/ FleetRegister
    \/ FleetRegResponse
    \/ Cardinality(net) < MaxInFlight /\ FleetParams
    \/ Cardinality(net) < MaxInFlight /\ \E raw_soh \in {0, 950000} : Tick(98, 98, 98, raw_soh)
    \/ Cardinality(net) < MaxInFlight /\ NotifyTimer
    \/ ButtonRelease
    \/ UgInitWaitExpired
    \/ Cardinality(net) < MaxInFlight /\ MsgEvent
    \/ Cardinality(net) < MaxInFlight /\ ObserveTimer
    \/ Deliver

FleetSpec == Init /\ [][FleetNext]_vars

\* every notification in flight is eventually handed to the notification callback
\* (the CoAP engine runs the callback whenever a datagram arrives)
FleetLiveSpec == FleetSpec /\ WF_vars(Deliver)

\* the registry up to and beyond its capacity, between control cycles
RegistryNext ==
    \/ Register(MaxRegistryPosts)
    \/ Notify
    \/ PutObjective
    \/ UgInitWaitExpired
    \/ MsgEvent
    \/ ObserveTimer

RegistrySpec == Init /\ [][RegistryNext]_vars

(* ------------------------------------------------------------------ *)
(* Steps, as seen from one state to the next                          *)
(* ------------------------------------------------------------------ *)
PutPowerStep == n_msgs' = n_msgs + 1 /\ last_op' = "res_power_put_handler"
PutParamsStep == n_msgs' = n_msgs + 1 /\ last_op' = "res_params_put_handler"
RegCallbackStep == retry_count' = retry_count + 1 /\ last_op' = "reg_callback"
\* a button release that the main loop acts upon
LocalReset == ButtonRelease /\ pc = "main" /\ current_state = STATE_ISOLATED

(* ------------------------------------------------------------------ *)
(* Lifecycle                                                          *)
(* ------------------------------------------------------------------ *)
\* C1: once the lifecycle is Isolated, every step other than the local reset
\* (ticks, PUT dev/power, PUT dev/params, anything else) leaves the lifecycle
\* Isolated and the power setpoint at 0.
C1_IsolatedLatch ==
    [][(current_state = STATE_ISOLATED /\ ~LocalReset)
         => (current_state' = STATE_ISOLATED /\ power_setpoint' = 0)]_vars

\* C2: no step caused by a message from the network (PUT dev/power, PUT dev/params,
\* a registration response handed to reg_callback) takes the unit from Isolated to
\* Running.
C2_NoRemoteRecovery ==
    [][((PutPowerStep \/ PutParamsStep \/ RegCallbackStep)
          /\ current_state = STATE_ISOLATED)
         => current_state' # STATE_RUNNING]_vars

\* C3: every change of the lifecycle state is Init -> Running in the callback of a
\* registration acknowledgment, Running -> Isolated, or Isolated -> Running by the
\* local reset.
C3_OnlyThreeTransitions ==
    [][current_state' # current_state =>
         \/ /\ current_state = STATE_INIT
            /\ current_state' = STATE_RUNNING
            /\ RegCallbackStep
            /\ resp' \in {CREATED_2_01, CHANGED_2_04}
         \/ /\ current_state = STATE_RUNNING
            /\ current_state' = STATE_ISOLATED
         \/ /\ current_state = STATE_ISOLATED
            /\ current_state' = STATE_RUNNING
            /\ LocalReset]_vars

(* ------------------------------------------------------------------ *)
(* Safety check                                                       *)
(* ------------------------------------------------------------------ *)
\* C4: after a tick that ran the safety check (the unit was Running after the
\* physical update): if the filtered SoH is below soh_critical or the temperature is
\* above temp_critical, the unit is Isolated, setpoint and current are 0 and the
\* observers were notified in that step; otherwise the unit is still Running with the
\* setpoint the physical update left and no trip notification.
C4_SafetyCheck ==
    (last_op = "et_loop" /\ tick_mid.run) =>
        IF FLt(bat_soh, soh_critical) \/ FGt(bat_temp, temp_critical)
        THEN /\ current_state = STATE_ISOLATED
             /\ power_setpoint = 0
             /\ bat_current = 0
             /\ notified
        ELSE /\ current_state = STATE_RUNNING
             /\ power_setpoint = tick_mid.p
             /\ ~notified

\* C4 witness: a tick tripped on temperature alone (SoH not critical) while the
\* temperature warning held as well.
C4_Witness ==
    /\ last_op = "et_loop"
    /\ tick_mid.run
    /\ prev_state = STATE_RUNNING
    /\ FGt(bat_temp, temp_critical)
    /\ FGt(bat_temp, temp_warning)
    /\ ~FLt(bat_soh, soh_critical)
    /\ current_state = STATE_ISOLATED
    /\ notified

(* ------------------------------------------------------------------ *)
(* PUT dev/power                                                      *)
(* ------------------------------------------------------------------ *)
\* C5: a PUT dev/power that finds the unit in Init or Isolated is answered 4.03
\* and changes nothing of the unit: lifecycle, setpoint, electrical quantities,
\* counters, feature window and thresholds are as before.
C5_RejectedWhenNotRunning ==
    [][(PutPowerStep /\ current_state \in {STATE_INIT, STATE_ISOLATED})
         => (resp' = FORBIDDEN_4_03 /\ UNCHANGED unit)]_vars

\* C5 witness: a PUT dev/power was answered 4.03 by an Isolated unit.
C5_Witness ==
    /\ last_op = "res_power_put_handler"
    /\ prev_state = STATE_ISOLATED
    /\ resp = FORBIDDEN_4_03

\* C6: the stored setpoint lies within +/- BAT_MAX_POWER_W in every reachable state
\* (an accepted PUT dev/power stores the requested value clipped to that range).
C6_SetpointWithinRated ==
    /\ FGe(power_setpoint, -BAT_MAX_POWER_W)
    /\ FLe(power_setpoint, BAT_MAX_POWER_W)

\* a payload that is empty, oversized or carries no number
Malformed(req) == req.len = 0 \/ req.len >= 32 \/ req.tok.k = "junk"

\* C7: a PUT dev/power with a malformed, empty or oversized payload, received while
\* Running, is answered 4.00 and leaves the setpoint as it was.
C7_MalformedRejected ==
    [][\A req \in PowerPayloads :
          (res_power_put_handler(req) /\ Malformed(req) /\ current_state = STATE_RUNNING)
            => (resp' = BAD_REQUEST_4_00 /\ power_setpoint' = power_setpoint)]_vars

(* ------------------------------------------------------------------ *)
(* PUT dev/params                                                     *)
(* ------------------------------------------------------------------ *)
\* what a body says, read field by field
Names(req, key) == \E n \in 1..Len(req.fields) : req.fields[n].key = key

FirstTok(req, key) ==
    req.fields[CHOOSE n \in 1..Len(req.fields) :
                  /\ req.fields[n].key = key
                  /\ \A m \in 1..(n - 1) : req.fields[m].key # key].tok

\* new is the number the body gives for key, or old when the body does not name key
KeepsOrTakes(req, key, old, new) ==
    IF Names(req, key)
    THEN FirstTok(req, key).k = "num" => new = FirstTok(req, key).v
    ELSE new = old

SaysState(req, text) == Names(req, "state") /\ FirstTok(req, "state") = Str(text)

\* C8: a PUT dev/params of acceptable length whose state directive is "ISO", received
\* while Running, leaves the unit Isolated with setpoint 0 and current 0, notifies the
\* observers in the same step and is answered 2.04.
C8_RemoteIsolate ==
    [][\A req \in ParamBodies :
          (/\ res_params_put_handler(req)
           /\ req.len > 0 /\ req.len < 128
           /\ SaysState(req, ISO_TEXT)
           /\ current_state = STATE_RUNNING)
            => /\ current_state' = STATE_ISOLATED
               /\ power_setpoint' = 0
               /\ bat_current' = 0
               /\ notified'
               /\ resp' = CHANGED_2_04]_vars

\* C8 witness: a Running unit was isolated by PUT dev/params.
C8_Witness ==
    /\ last_op = "res_params_put_handler"
    /\ prev_state = STATE_RUNNING
    /\ current_state = STATE_ISOLATED
    /\ power_setpoint = 0
    /\ bat_current = 0
    /\ notified
    /\ resp = CHANGED_2_04

\* C9: an accepted PUT dev/params sets each of the five thresholds that its body names
\* to the number given and leaves each threshold it does not name as it was; a state
\* directive RUN or INI leaves lifecycle, setpoint and current as they were.
C9_ThresholdFrame ==
    [][\A req \in ParamBodies :
          (res_params_put_handler(req) /\ resp' = CHANGED_2_04)
            => /\ KeepsOrTakes(req, "soh_critical", soh_critical, soh_critical')
               /\ KeepsOrTakes(req, "soh_warning", soh_warning, soh_warning')
               /\ KeepsOrTakes(req, "temp_critical", temp_critical, temp_critical')
               /\ KeepsOrTakes(req, "temp_warning", temp_warning, temp_warning')
               /\ KeepsOrTakes(req, "cycles_warning", cycles_warning, cycles_warning')
               /\ (SaysState(req, <<"R", "U", "N">>) \/ SaysState(req, <<"I", "N", "I">>))
                    => UNCHANGED <<current_state, power_setpoint, bat_current>>]_vars

\* C9 witness: a body naming temp_warning and cycles_warning changed these two and
\* left the other three thresholds at their defaults.
C9_Witness ==
    /\ last_op = "res_params_put_handler"
    /\ resp = CHANGED_2_04
    /\ temp_warning = 4000
    /\ cycles_warning = 5
    /\ soh_critical = 7500
    /\ soh_warning = 8500
    /\ temp_critical = 6000

RunningTickDone == last_op = "et_loop" /\ prev_state = STATE_RUNNING

\* C11 as stated: after a tick in Running that found a negative setpoint and
\* SoC <= 2%, or a positive setpoint and SoC >= 98%, the effective power applied and
\* the stored setpoint are 0.
C11_AdmissionAnySign ==
    (/\ RunningTickDone
     /\ \/ FLt(tick_mid.p0, 0) /\ FLe(tick_mid.soc0, 200)
        \/ FGt(tick_mid.p0, 0) /\ FGe(tick_mid.soc0, 9800))
      => (tick_mid.p = 0 /\ power_setpoint = 0)

\* C11 amended: after a tick in Running that found a setpoint below -0.5 W and
\* SoC <= 2%, or a setpoint above +0.5 W and SoC >= 98%, the effective power applied
\* and the stored setpoint are 0; a setpoint within +/-0.5 W is applied as it is.
C11_AdmissionBeyondDeadBand ==
    /\ (/\ RunningTickDone
        /\ \/ FLt(tick_mid.p0, -5) /\ FLe(tick_mid.soc0, 200)
           \/ FGt(tick_mid.p0, 5) /\ FGe(tick_mid.soc0, 9800))
         => (tick_mid.p = 0 /\ power_setpoint = 0)
    /\ (RunningTickDone /\ FGe(tick_mid.p0, -5) /\ FLe(tick_mid.p0, 5))
         => tick_mid.p = tick_mid.p0

\* C11 witness: a tick found a 10 kW discharge command at SoC 1.5% and applied 0.
C11_Witness ==
    /\ RunningTickDone
    /\ tick_mid.p0 = -BAT_MAX_POWER_W
    /\ tick_mid.soc0 = 150
    /\ tick_mid.p = 0
    /\ power_setpoint = 0

\* C12: after every tick of a Running unit whose setpoint was within +/- rated max,
\* whatever the regression output, SoC is in [0,1], SoH in [0.5,1] and the temperature
\* in [0,80].
C12_BoundaryClamp ==
    (/\ RunningTickDone
     /\ FGe(tick_mid.p0, -BAT_MAX_POWER_W)
     /\ FLe(tick_mid.p0, BAT_MAX_POWER_W))
      => /\ FGe(bat_soc, 0) /\ FLe(bat_soc, 10000)
         /\ FGe(bat_soh, 5000) /\ FLe(bat_soh, 10000)
         /\ FGe(bat_temp, 0) /\ FLe(bat_temp, 8000)

(* ------------------------------------------------------------------ *)
(* Local reset                                                        *)
(* ------------------------------------------------------------------ *)
\* C13: a button release received while Isolated leaves the unit Running with
\* SoH 1, capacity 200 Ah, temperature 25, setpoint 0 and cycle count, Ah throughput
\* and peak temperature cleared; received in any other lifecycle state it changes
\* nothing of the unit.
C13_LocalReset ==
    [][ButtonRelease =>
         IF current_state = STATE_ISOLATED
         THEN /\ current_state' = STATE_RUNNING
              /\ bat_soh' = 10000
              /\ bat_capacity_ah' = SCALED_CAPACITY_AH
              /\ bat_temp' = 2500
              /\ power_setpoint' = 0
              /\ charge_cycles' = 0
              /\ total_ah_throughput' = 0
              /\ peak_temp_reached' = 2500
         ELSE UNCHANGED unit]_vars

(* ------------------------------------------------------------------ *)
(* Coordinator: optimizer and dispatch                                *)
(* ------------------------------------------------------------------ *)
\* a control cycle starts: optimizer run and first dispatch
CycleStep == n_cycles' = n_cycles + 1

\* a command is issued: by the step that starts a cycle or by the step that ends
\* the previous exchange; it is the last one of sent'
DispatchStep ==
    /\ ug_pc' = "blocked"
    /\ CycleStep \/ (ug_pc = "blocked" /\ disp_i' # disp_i)

Slots == 0..(battery_count - 1)

\* C14 as stated: an optimizer run leaves optimal_u of every entry that has a manual
\* objective unchanged.
C14_ObjectiveKeepsOptimalU ==
    [][CycleStep =>
         \A k \in Slots :
            batteries[k].has_objective
              => batteries'[k].optimal_u = batteries[k].optimal_u]_vars

\* C14 amended: an optimizer run sets optimal_u of every entry that has a manual
\* objective to the objective power, whatever the entry's previous optimal_u and
\* mirrored state; the gradient iterations do not move it from there, and the
\* objective itself is left as it was.
C14_ObjectiveSeedsOptimalU ==
    [][CycleStep =>
         \A k \in Slots :
            batteries[k].has_objective
              => /\ batteries'[k].optimal_u = batteries[k].objective_power
                 /\ batteries'[k].has_objective
                 /\ batteries'[k].objective_power = batteries[k].objective_power]_vars

\* C14 witness: after a cycle, slot 0 has the objective +3 kW, was commanded +3 kW
\* and its optimal_u is +3 kW.
C14_Witness ==
    /\ n_cycles = 1
    /\ batteries[0].has_objective
    /\ batteries[0].objective_power = 30000
    /\ batteries[0].optimal_u = 30000
    /\ Len(sent) >= 1
    /\ sent[1].idx = 0
    /\ sent[1].req.tok = Num(30000)

\* C15: every command issued goes to an active entry that is not ISO at that
\* moment, is addressed to the entry's unit, and the number its payload carries
\* (in W) is the entry's objective power (kW) when the entry has a manual objective
\* at that moment and its optimal_u (kW) otherwise.
C15_DispatchedCommand ==
    [][DispatchStep =>
         LET c == sent'[Len(sent')]
             e == batteries'[c.idx]
         IN  /\ c.idx < battery_count'
             /\ e.active
             /\ c.to = e.ip
             /\ c.req.len > 0 /\ c.req.len < 16
             /\ atof(c.req.tok) =
                  (IF e.has_objective THEN e.objective_power ELSE e.optimal_u)]_vars

\* C15 witness: two units, slot 0 with objective +3 kW and slot 1 without; one
\* cycle commanded +3 kW and the optimizer's value for slot 1.
C15_Witness ==
    /\ n_cycles = 1
    /\ battery_count = 2
    /\ Len(sent) = 2
    /\ batteries[0].has_objective /\ batteries[0].objective_power = 30000
    /\ ~batteries[1].has_objective
    /\ sent[1].idx = 0 /\ sent[1].req.tok = Num(30000)
    /\ sent[2].idx = 1 /\ sent[2].req.tok = Num(batteries[1].optimal_u)
    /\ batteries[1].optimal_u # 0

\* C16 as stated: a cycle does not change optimal_u of an entry whose mirrored state
\* is ISO, with or without a manual objective, and no command is issued to an entry
\* that is ISO.
C16_IsolatedUntouched ==
    [][/\ CycleStep =>
            \A k \in Slots :
               batteries[k].state = ISO_TEXT
                 => batteries'[k].optimal_u = batteries[k].optimal_u
       /\ DispatchStep => batteries'[sent'[Len(sent')].idx].state # ISO_TEXT]_vars

\* C16 amended: for an entry whose mirrored state is ISO, a cycle leaves optimal_u
\* as it was when the entry has no manual objective and sets it to the objective
\* power when it has one (no gradient step is applied to it), and no command is
\* issued to an entry that is ISO.
C16_IsolatedNotOptimised ==
    [][/\ CycleStep =>
            \A k \in Slots :
               batteries[k].state = ISO_TEXT
                 => batteries'[k].optimal_u =
                      (IF batteries[k].has_objective
                       THEN batteries[k].objective_power
                       ELSE batteries[k].optimal_u)
       /\ DispatchStep => batteries'[sent'[Len(sent')].idx].state # ISO_TEXT]_vars

\* C16 witness: a cycle ran with slot 0 ISO and under objective +3 kW: its optimal_u
\* is the objective and no command was issued to it.
C16_Witness ==
    /\ n_cycles = 1
    /\ batteries[0].state = ISO_TEXT
    /\ batteries[0].has_objective
    /\ batteries[0].optimal_u = 30000
    /\ \A n \in 1..Len(sent) : sent[n].idx # 0

(* ------------------------------------------------------------------ *)
(* Coordinator: registry                                              *)
(* ------------------------------------------------------------------ *)
\* C17: a POST dev/register received while fewer than MAX_BATTERIES entries exist
\* fills the slot whose index is the previous count with the sender's address and
\* the defaults (state INI, SoC 0.5, optimal_u 0, actual power 0, no objective,
\* subscription not requested), marks it active, increments the count by one,
\* leaves every other slot as it was and answers 2.01.
C17_RegistrationSuccess ==
    [][\A src \in Addrs :
          res_reg_h(src) /\ battery_count < MAX_BATTERIES
            => /\ battery_count' = battery_count + 1
               /\ batteries'[battery_count].ip = src
               /\ batteries'[battery_count].active
               /\ batteries'[battery_count].state = INI_TEXT
               /\ batteries'[battery_count].current_soc = 5000
               /\ batteries'[battery_count].optimal_u = 0
               /\ batteries'[battery_count].actual_power = 0
               /\ ~batteries'[battery_count].has_objective
               /\ ~batteries'[battery_count].obs_requested
               /\ \A k \in DOMAIN batteries :
                     k # battery_count => batteries'[k] = batteries[k]
               /\ ug_resp' = CREATED_2_01]_vars

\* C17 witness: the fifth registration was just answered 2.01 and slot 4 holds a
\* fresh entry, behind a slot 0 that telemetry has already updated.
C17_Witness ==
    /\ ug_op = "res_reg_h"
    /\ ug_resp = CREATED_2_01
    /\ battery_count = MAX_BATTERIES
    /\ batteries[4].active
    /\ batteries[4].ip = "fd00::203"
    /\ batteries[4].state = INI_TEXT
    /\ ~batteries[4].obs_requested
    /\ batteries[0].state = RUN_TEXT

\* C18: a POST dev/register received while the registry holds MAX_BATTERIES entries
\* is answered 5.03 and changes neither the count nor any slot; the count never
\* exceeds MAX_BATTERIES.
C18_CapacityBoundary ==
    /\ [](battery_count <= MAX_BATTERIES)
    /\ [][\A src \in Addrs :
             res_reg_h(src) /\ battery_count >= MAX_BATTERIES
               => /\ ug_resp' = SERVICE_UNAVAILABLE_5_03
                  /\ UNCHANGED <<batteries, battery_count>>]_vars

\* C18 witness: a sixth registration was just answered 5.03 by a full registry.
C18_Witness ==
    /\ ug_op = "res_reg_h"
    /\ ug_resp = SERVICE_UNAVAILABLE_5_03
    /\ battery_count = MAX_BATTERIES
    /\ n_posts = MAX_BATTERIES + 1
    /\ \A k \in 0..(MAX_BATTERIES - 1) : batteries[k].active

\* C19: no step (registration, notification, objective, optimizer run, dispatch,
\* subscription) changes the address of a registered slot, deactivates it or
\* lowers the count.
C19_AppendOnly ==
    [][/\ battery_count' >= battery_count
       /\ \A k \in Slots :
             /\ batteries'[k].ip = batteries[k].ip
             /\ batteries'[k].active]_vars

\* C19 witness: slot 0 still holds the first unit's address after a second unit
\* registered, telemetry of the first arrived, an objective was set on it and a
\* control cycle commanded it.
C19_Witness ==
    /\ battery_count >= 2
    /\ batteries[0].ip = "fd00::202" /\ batteries[0].active
    /\ batteries[1].ip = "fd00::203" /\ batteries[1].active
    /\ batteries[0].state = RUN_TEXT
    /\ batteries[0].has_objective
    /\ n_cycles = 1
    /\ Len(sent) >= 1 /\ sent[1].idx = 0

(* ------------------------------------------------------------------ *)
(* Coordinator: sequential dispatch                                   *)
(* ------------------------------------------------------------------ *)
\* C20: at most one command exchange is outstanding, and the process is blocked
\* exactly while one is; the commands of a cycle are issued in increasing slot
\* index; a command is issued only by the step that starts the cycle or by the
\* step that ends the previous exchange, after which the new exchange is the only
\* one outstanding; an optimizer run starts only when no exchange is outstanding.
C20_SequentialDispatch ==
    /\ [](/\ Cardinality(exchanges) <= 1
          /\ (exchanges # {}) <=> (ug_pc = "blocked")
          /\ \A m, n \in 1..Len(sent) : m < n => sent[m].idx < sent[n].idx)
    /\ [][/\ CycleStep => exchanges = {}
          /\ (exchanges' # {} /\ exchanges' # exchanges)
                => /\ DispatchStep
                   /\ exchanges' = {sent'[Len(sent')]}
                   /\ \A c \in exchanges : c.idx < sent'[Len(sent')].idx]_vars

\* C20 witness: the exchange with slot 0 is over and the exchange with slot 1 is
\* the only one outstanding.
C20_Witness ==
    /\ ug_pc = "blocked"
    /\ Len(sent) = 2
    /\ sent[1].idx = 0 /\ sent[2].idx = 1
    /\ exchanges = {sent[2]}

\* C21: whatever the outcome of a command exchange (2.04, 4.03, 4.00 or no
\* response), the step that ends it changes no registry entry, not the count and no
\* cost parameter, and the dispatch loop goes on: the slots it passes over are
\* inactive or ISO, and either it commands the next active slot that is not ISO or
\* it has reached the end of the registry and the process is back in its main wait.
C21_SoftFailure ==
    [][\A outcome \in ExchangeOutcomes :
          ExchangeDone(outcome)
            => /\ UNCHANGED <<batteries, battery_count, alpha, beta, gama, price>>
               /\ disp_i' > disp_i
               /\ \A j \in (disp_i + 1)..(disp_i' - 1) :
                     ~batteries[j].active \/ batteries[j].state = ISO_TEXT
               /\ IF disp_i' < battery_count
                  THEN /\ batteries[disp_i'].active
                       /\ batteries[disp_i'].state # ISO_TEXT
                       /\ ug_pc' = "blocked"
                       /\ \E c \in exchanges' : c.idx = disp_i'
                  ELSE /\ disp_i' = battery_count
                       /\ ug_pc' = "main"
                       /\ exchanges' = {}]_vars

\* C21 witness: a cycle over two commanded slots is over: both exchanges ended, the
\* process is back in its main wait, and slot 0 still mirrors telemetry and holds
\* its objective.
C21_Witness ==
    /\ n_cycles = 1
    /\ ug_pc = "main"
    /\ exchanges = {}
    /\ Len(sent) = 2
    /\ batteries[0].state = RUN_TEXT
    /\ batteries[0].current_soc = 4500
    /\ batteries[0].has_objective

(* ------------------------------------------------------------------ *)
(* Unit: registration                                                 *)
(* ------------------------------------------------------------------ *)
\* registration requests sent so far: the attempts completed and the one outstanding
RequestsSent == retry_count + (IF pc = "reg_blocked" THEN 1 ELSE 0)

\* C22: a unit sends at most MAX_RETRY (10) registration requests; when the last
\* of them ends without a success acknowledgment the control process halts; a
\* halted process stays halted and the unit is not and never becomes Running; the
\* node goes on answering: a PUT dev/power to the halted unit is answered 4.03 and
\* leaves the setpoint as it was.
C22_BoundedRetry ==
    /\ [](/\ RequestsSent <= MAX_RETRY
          /\ pc = "halted" => current_state # STATE_RUNNING)
    /\ [][/\ (RegCallbackStep /\ retry_count' = MAX_RETRY
                 /\ current_state' # STATE_RUNNING) => pc' = "halted"
          /\ pc = "halted" => pc' = "halted" /\ current_state' # STATE_RUNNING
          /\ (pc = "halted" /\ PutPowerStep)
                => resp' = FORBIDDEN_4_03 /\ UNCHANGED power_setpoint]_vars

\* C22 witness: ten attempts failed, the process halted in Init, and a power command
\* received afterwards was answered 4.03.
C22_Witness ==
    /\ retry_count = MAX_RETRY
    /\ pc = "halted"
    /\ current_state = STATE_INIT
    /\ last_op = "res_power_put_handler"
    /\ resp = FORBIDDEN_4_03

\* C23: the unit goes from Init to Running only in the step that ends a
\* registration exchange with a 2.01 or 2.04 response; a registration exchange that
\* ends with any other response or with none leaves the lifecycle state as it was;
\* a registration request is sent only when the start-up wait ends (the first one)
\* or when the 5 s backoff wait ends, never by the step that ends the previous
\* exchange.
C23_RegistrationTransition ==
    [][/\ (current_state = STATE_INIT /\ current_state' = STATE_RUNNING)
             => RegCallbackStep /\ resp' \in {CREATED_2_01, CHANGED_2_04}
       /\ (RegCallbackStep /\ resp' \notin {CREATED_2_01, CHANGED_2_04})
             => UNCHANGED current_state
       /\ (pc # "reg_blocked" /\ pc' = "reg_blocked")
             => \/ pc = "reg_backoff"
                \/ pc = "init_wait" /\ retry_count = 0]_vars

\* C23 witness: the first attempt was answered 5.03, the backoff elapsed, and the
\* second attempt was answered 2.01: the unit is Running after two attempts.
C23_Witness ==
    /\ last_op = "reg_callback"
    /\ resp = CREATED_2_01
    /\ prev_state = STATE_INIT
    /\ current_state = STATE_RUNNING
    /\ retry_count = 2
    /\ pc = "main"

(* ------------------------------------------------------------------ *)
(* Coordinator: PUT ctrl/obj and PUT ctrl/mpc                         *)
(* ------------------------------------------------------------------ *)
\* the body names no idx, or one that is negative or not below the count, or one of
\* an inactive slot
BadIdx(req) ==
    \/ Find(req.fields, "idx") = 0
    \/ LET tok == req.fields[Find(req.fields, "idx")].tok
       IN  /\ tok.k = "num"
           /\ \/ tok.v < 0
              \/ tok.v >= battery_count
              \/ ~batteries[tok.v].active

\* C26: a PUT ctrl/obj whose idx is missing, negative, not below the count or that
\* of an inactive slot is answered 4.00 and changes no registry entry.
C26_BadIdxRejected ==
    [][\A req \in ObjBodies :
          res_obj_put_handler(req) /\ BadIdx(req)
            => ug_resp' = BAD_REQUEST_4_00 /\ UNCHANGED <<batteries, battery_count>>]_vars

\* C26 witness: with two slots registered and an objective on slot 0, a PUT ctrl/obj
\* (whose idx is then missing, negative or too large) was answered 4.00.
C26_Witness ==
    /\ ug_op = "res_obj_put_handler"
    /\ ug_resp = BAD_REQUEST_4_00
    /\ battery_count = 2
    /\ batteries[0].has_objective
    /\ batteries[0].objective_power = 30000
    /\ ~batteries[1].has_objective

\* the body of an accepted PUT ctrl/mpc names key
Named(req, key) == \E n \in 1..Len(req.fields) : req.fields[n].key = key

\* the number the first field of the body named key carries
Given(req, key) ==
    LET n == CHOOSE n \in 1..Len(req.fields) :
                /\ req.fields[n].key = key
                /\ \A m \in 1..(n - 1) : req.fields[m].key # key
    IN  atof(req.fields[n].tok)

\* C27: a PUT ctrl/mpc that is accepted (2.04) sets every cost parameter its body
\* names to the number given there (the first one when a key is repeated, 0 when
\* the text is not a number) and leaves every parameter it does not name, and the
\* registry, unchanged.
C27_MpcFrame ==
    [][\A req \in MpcBodies :
          (res_mpc_put_handler(req) /\ ug_resp' = CHANGED_2_04)
            => /\ alpha' = IF Named(req, "alpha") THEN Given(req, "alpha") ELSE alpha
               /\ beta' = IF Named(req, "beta") THEN Given(req, "beta") ELSE beta
               /\ gama' = IF Named(req, "gama") THEN Given(req, "gama") ELSE gama
               /\ price' = IF Named(req, "price") THEN Given(req, "price") ELSE price
               /\ UNCHANGED registry]_vars

\* C27 witness: PUT ctrl/mpc {"alpha":2.0,"price":0.5} changed alpha and price and
\* left beta and gama at their initial values.
C27_Witness ==
    /\ ug_op = "res_mpc_put_handler"
    /\ ug_resp = CHANGED_2_04
    /\ alpha = 200 /\ price = 50
    /\ beta = 100 /\ gama = 2000

(* ------------------------------------------------------------------ *)
(* Coordinator: optimizer fixed point                                 *)
(* ------------------------------------------------------------------ *)
\* the previous cycle optimised slot 0, the only one, and commanded its value
OptimisedBefore ==
    /\ battery_count = 1
    /\ batteries[0].active
    /\ batteries[0].state # ISO_TEXT
    /\ ~batteries[0].has_objective
    /\ Len(sent) = 1
    /\ sent[1].idx = 0
    /\ atof(sent[1].req.tok) = batteries[0].optimal_u

\* C28: for a single active unit that is not ISO and has no objective, a control
\* cycle that follows one with the same mirrored SoC and the same cost parameters
\* reproduces the optimal_u of that cycle.
C28_FixedPoint ==
    [][(CycleStep /\ OptimisedBefore)
          => batteries'[0].optimal_u = batteries[0].optimal_u]_vars

\* C28 witness: three cycles ran for a unit at mirrored SoC 0.45 under the initial
\* cost parameters, and its optimal_u is a discharge value between the limits.
C28_Witness ==
    /\ n_cycles = MaxOptCycles
    /\ OptimisedBefore
    /\ batteries[0].current_soc = 4500
    /\ alpha = 100 /\ beta = 100 /\ gama = 2000 /\ price = 25
    /\ batteries[0].optimal_u # 0
    /\ batteries[0].optimal_u > -BAT_MAX_POWER_KW
    /\ batteries[0].optimal_u < BAT_MAX_POWER_KW

(* ------------------------------------------------------------------ *)
(* Coordinator: one slot per unit                                     *)
(* ------------------------------------------------------------------ *)
\* C29: no two registered slots hold the same address, and no cycle commands the
\* same address twice.
C29_OneSlotPerUnit ==
    /\ \A j, k \in Slots : j # k => batteries[j].ip # batteries[k].ip
    /\ \A m, n \in 1..Len(sent) : m # n => sent[m].to # sent[n].to


\* the number a field of a dev/state body carries
Wire(note, key) == atof(note.fields[Find(note.fields, key)].tok)

\* two finite numbers no further apart than tol; a non-finite number only
\* matches itself
Within(a, b, tol) ==
    IF IsFinite(a) /\ IsFinite(b) THEN FAbs(a - b) <= tol ELSE a = b

\* C24: every dev/state body written while the unit is Isolated carries
\* I exactly 0, V the open-circuit voltage 3.0 + 1.2 * SoC of the present SoC
\* (to the two decimals of the text) and the state text "ISO"
C24_IsolatedTelemetry ==
    \A m \in net :
       m.st = STATE_ISOLATED =>
          /\ m.body.fields[Find(m.body.fields, "I")].tok = Num(0)
          /\ Within(Wire(m.body, "V"), 3000 + (12 * m.soc) \div 100, 5)
          /\ m.body.fields[Find(m.body.fields, "St")].tok = Str(ISO_TEXT)

\* a body written by an Isolated unit whose measured voltage and current are
\* not the exported ones is on its way
C24_Witness ==
    \E m \in net :
       /\ m.st = STATE_ISOLATED
       /\ current_state = STATE_ISOLATED
       /\ m.soc = bat_soc
       /\ ~Within(bat_voltage, Wire(m.body, "V"), 5)

\* the coordinator's entry for the unit
UnitEntry(bs) == bs[SlotOf(bs, battery_count, UnitAddr)]

\* entry e mirrors the snapshot of notification m: V within 0.005 V, I within
\* 0.005 A, T within 0.05 C, SoC and SoH within tol, and the same lifecycle state
Mirrors(e, m, tol) ==
    /\ Within(e.current_voltage, m.v, 5)
    /\ Within(e.current_current, m.i, 0)
    /\ Within(e.current_temp, m.t, 5)
    /\ Within(e.current_soc, m.soc, tol)
    /\ Within(e.current_soh, m.soh, tol)
    /\ e.state = StateName(m.st)

C30_EventuallyIso ==
    <>[](current_state = STATE_ISOLATED /\ Subscribed /\ net = {})
       => <>[](UnitEntry(batteries).state = ISO_TEXT)

\* an et_loop tick
TickStep == n_ticks' = n_ticks + 1

\* C33: a tick of an Isolated unit leaves the lifecycle state, the setpoint, the
\* electrical and aging quantities, the feature window and the thresholds as they
\* were, and sends no notification
C33_IsolatedTickIdle ==
    [][(TickStep /\ current_state = STATE_ISOLATED)
          => (unit' = unit /\ ~notified' /\ net' = net)]_vars

\* a tick has just been taken by an Isolated unit
C33_Witness == last_op = "et_loop" /\ prev_state = STATE_ISOLATED /\ current_state = STATE_ISOLATED

\* C34 as stated: after a tick of a Running unit that leaves it Running, the
\* stored setpoint is the effective power of the tick: a discharge command with
\* 2% < SoC < 10% times (SoC - 0.02)/0.08, a charge command with 90% < SoC < 98%
\* times (0.98 - SoC)/0.08, and the command itself outside those SoC bands
C34_DeratedSetpoint ==
    (RunningTickDone /\ tick_mid.run /\ current_state = STATE_RUNNING) =>
        /\ power_setpoint = tick_mid.p
        /\ (FLt(tick_mid.p0, 0) /\ FGt(tick_mid.soc0, 200) /\ FLt(tick_mid.soc0, 1000))
              => tick_mid.p = FScale(tick_mid.p0, tick_mid.soc0 - 200, 800)
        /\ (FGt(tick_mid.p0, 0) /\ FGt(tick_mid.soc0, 9000) /\ FLt(tick_mid.soc0, 9800))
              => tick_mid.p = FScale(tick_mid.p0, 9800 - tick_mid.soc0, 800)
        /\ (~(FLt(tick_mid.p0, 0) /\ FLt(tick_mid.soc0, 1000))
              /\ ~(FGt(tick_mid.p0, 0) /\ FGt(tick_mid.soc0, 9000)))
              => tick_mid.p = tick_mid.p0

\* C34 as the code has it: only a command beyond the 0.5 W dead band is limited
\* (derated inside the bands, 0 at SoC <= 2% or >= 98%), any other command is
\* kept; the stored setpoint is that effective power, or 0 when the safety check
\* of the same tick isolates the unit; a tick never raises the magnitude of a
\* finite setpoint and never changes its sign
C34_DeratedBeyondDeadBand ==
    (RunningTickDone /\ tick_mid.run) =>
        /\ power_setpoint = (IF current_state = STATE_RUNNING THEN tick_mid.p ELSE 0)
        /\ (FLt(tick_mid.p0, -5) /\ FGt(tick_mid.soc0, 200) /\ FLt(tick_mid.soc0, 1000))
              => tick_mid.p = FScale(tick_mid.p0, tick_mid.soc0 - 200, 800)
        /\ (FGt(tick_mid.p0, 5) /\ FGt(tick_mid.soc0, 9000) /\ FLt(tick_mid.soc0, 9800))
              => tick_mid.p = FScale(tick_mid.p0, 9800 - tick_mid.soc0, 800)
        /\ (FLt(tick_mid.p0, -5) /\ FLe(tick_mid.soc0, 200)) => tick_mid.p = 0
        /\ (FGt(tick_mid.p0, 5) /\ FGe(tick_mid.soc0, 9800)) => tick_mid.p = 0
        /\ (~(FLt(tick_mid.p0, -5) /\ FLt(tick_mid.soc0, 1000))
              /\ ~(FGt(tick_mid.p0, 5) /\ FGt(tick_mid.soc0, 9000)))
              => tick_mid.p = tick_mid.p0
        /\ IsFinite(tick_mid.p0) =>
              /\ FAbs(power_setpoint) <= FAbs(tick_mid.p0)
              /\ (tick_mid.p0 >= 0 => power_setpoint >= 0)
              /\ (tick_mid.p0 <= 0 => power_setpoint <= 0)

\* a tick has derated a charge command: the stored setpoint is a smaller, still
\* positive power
C34_Witness ==
    /\ RunningTickDone
    /\ tick_mid.run
    /\ current_state = STATE_RUNNING
    /\ tick_mid.soc0 = 9400
    /\ tick_mid.p0 = 50000
    /\ power_setpoint = 25000

\* the regression estimate the claim blends: clamp(r, 0, 100) / 100
Estimate(r) == IF FGt(r, 1000000) THEN 10000 ELSE IF FLt(r, 0) THEN 0 ELSE FScale(r, 1, 100)

\* 0.7 * estimate + 0.3 * SoH, less 0.001 per degree above 45 C and 0.02 per unit
\* of SoC below 0.1, clamped to [0.5, 1]
Blend(est, soh, t, soc) ==
    LET c == FSub(FSub(FAdd(FScale(est, 7, 10), FScale(soh, 3, 10)),
                       IF FGt(t, 4500) THEN FScale(FSub(t, 4500), 1, 10) ELSE 0),
                  IF FLt(soc, 1000) THEN FScale(FSub(1000, soc), 1, 50) ELSE 0)
    IN  IF FGt(c, 10000) THEN 10000 ELSE IF FLt(c, 5000) THEN 5000 ELSE c

SocFollowsPower ==
    /\ FGt(tick_mid.p, 0) => ~FLt(tick_mid.soc, tick_mid.soc0)
    /\ FLt(tick_mid.p, 0) => ~FGt(tick_mid.soc, tick_mid.soc0)

\* C39 as stated: across any tick of a Running unit SoC moves with the sign of
\* the effective setpoint
C39_SocFollowsPower == (RunningTickDone /\ tick_mid.run) => SocFollowsPower

\* the same for a tick that starts with SoC within [0, 1] and a positive SoH
C39_SocFollowsPowerInRange ==
    (/\ RunningTickDone
     /\ tick_mid.run
     /\ FGe(tick_mid.soc0, 0) /\ FLe(tick_mid.soc0, 10000)
     /\ FGt(tick_mid.soh0, 0))
      => SocFollowsPower

\* the integer the first field of the body named key carries, dflt when absent
GivenInt(req, key, dflt) ==
    IF Named(req, key)
    THEN strtol(req.fields[CHOOSE n \in 1..Len(req.fields) :
                               /\ req.fields[n].key = key
                               /\ \A m \in 1..(n - 1) : req.fields[m].key # key].tok)
    ELSE dflt

\* kw limited to the rated +/-10 kW
Clip(kw) ==
    IF FGt(kw, BAT_MAX_POWER_KW) THEN BAT_MAX_POWER_KW
    ELSE IF FLt(kw, -BAT_MAX_POWER_KW) THEN -BAT_MAX_POWER_KW
    ELSE kw

\* an accepted PUT ctrl/obj changes has_objective and objective_power of the
\* entry its idx names and nothing else in the registry: a non-zero clear removes
\* the override and zeroes objective_power also when power_kw is given, otherwise
\* the override is set to power_kw limited to +/-10 kW
C35_ObjectiveFrame ==
    [][\A req \in ObjBodies :
          (res_obj_put_handler(req) /\ ug_resp' = CHANGED_2_04)
            => /\ battery_count' = battery_count
               /\ batteries' =
                     [batteries EXCEPT ![GivenInt(req, "idx", -1)] =
                        IF GivenInt(req, "clear", 0) # 0
                        THEN [@ EXCEPT !.has_objective = FALSE, !.objective_power = 0]
                        ELSE [@ EXCEPT !.has_objective = TRUE,
                                       !.objective_power = Clip(Given(req, "power_kw"))]]]_vars

\* C35: in every reachable state the objective_power of every entry is within
\* +/-10 kW and is 0 whenever has_objective is false (the consequence the claim
\* draws from the frame of an accepted PUT ctrl/obj)
C35_ObjectiveBounded ==
    \A k \in DOMAIN batteries :
       /\ FGe(batteries[k].objective_power, -BAT_MAX_POWER_KW)
       /\ FLe(batteries[k].objective_power, BAT_MAX_POWER_KW)
       /\ ~batteries[k].has_objective => batteries[k].objective_power = 0

\* C36: in every reachable state, so after every optimizer run of PGD_ITERATIONS
\* projected steps, the optimal_u of every entry lies within +/-10 kW, whatever
\* the cost parameters and the mirrored SoC
C36_OptimalWithinRated ==
    \A k \in DOMAIN batteries :
       /\ FGe(batteries[k].optimal_u, -BAT_MAX_POWER_KW)
       /\ FLe(batteries[k].optimal_u, BAT_MAX_POWER_KW)

\* a table that holds entry e alone, in slot 0
Alone(e) == [k \in DOMAIN batteries |-> IF k = 0 THEN e ELSE ZeroEntry]

\* C37: the optimal_u a control cycle assigns to an entry is the one the optimizer
\* assigns to that entry when it is alone in the table, in slot 0: the other
\* entries' SoC, state and objective and the entry's position have no influence
C37_UnitIndependence ==
    [][CycleStep =>
          \A k \in 0..(battery_count - 1) :
             batteries'[k].optimal_u =
                run_mpc(Alone(batteries[k]), 1, alpha, beta, gama, price)[0].optimal_u]_vars

\* a cycle optimised slot 1 next to an isolated slot 0 with another SoC
C37_Witness ==
    /\ n_cycles = 1
    /\ battery_count = 2
    /\ batteries[0].state = ISO_TEXT
    /\ batteries[1].active
    /\ batteries[1].state # ISO_TEXT
    /\ ~batteries[1].has_objective
    /\ batteries[1].optimal_u # 0
    /\ batteries[0].current_soc # batteries[1].current_soc

C32_SubscriptionComing ==
    (\E k \in 0..(battery_count - 1) : batteries[k].active /\ ~batteries[k].obs_requested)
      => (ev_msg \/ et_observe_setup)

\* a subscription request is issued for an entry at most once: obs_requested,
\* once set, stays set
C32_RequestedOnce ==
    [][\A k \in 0..(battery_count - 1) :
          batteries[k].obs_requested => batteries'[k].obs_requested]_vars

====
